---- MODULE Spec2Model ----
(***************************************************************************)
(* Model of the Blender add-on "Create Hair System"                        *)
(* (src/create_hair_system/__init__.py): the operator                      *)
(* CREATEHAIRSYSTEM_PT_CreateHairSystem.execute and its two helpers,       *)
(* select_name and does_cache_name_exist_in_object, running against the    *)
(* part of the host (bpy) state that they read and write.                  *)
(*                                                                         *)
(* Numbers: every float of the source is kept as an integer number of      *)
(* millionths (0.015 is 15000, -0.75 is -750000, 1 is 1000000).  Counts    *)
(* (segments, particle amounts, frames, userjit) are plain integers.       *)
(***************************************************************************)
EXTENDS Integers, Sequences, FiniteSets, TLC

VARIABLES
    filepath,    \* bpy.context.blend_data.filepath
    scene,       \* bpy.context.scene: frame_start, frame_end
    prefs,       \* bpy.context.preferences.addons['create_hair_system'].preferences
    active,      \* bpy.context.active_object (bpy.context.object), by object name
    selected,    \* the names of the selected objects
    mode,        \* object name -> its interaction mode
    modifiers,   \* object name -> its modifier stack
    collision,   \* object name -> its collision settings (obj.collision)
    psys,        \* object name -> its particle systems (obj.particle_systems)
    particles,   \* bpy.data.particles: the particle settings blocks
    pc,          \* the position of execute()
    loc,         \* the local variables of execute()
    result,      \* how the last call of execute() ended
    log,         \* the host mutations made by the current call, in order
    entry,       \* the host state when the current call started
    runs,        \* the number of calls of execute() started so far
    budget       \* the number of calls of execute() the behaviour may start

vars == <<filepath, scene, prefs, active, selected, mode, modifiers, collision,
          psys, particles, pc, loc, result, log, entry, runs, budget>>

host == <<active, selected, mode, modifiers, collision, psys, particles>>

(***************************************************************************)
(* Bounds of the model.                                                    *)
(***************************************************************************)
\* execute() is called at most this many times in one behaviour
MaxRuns == 2
\* the largest counter the lexicographic comparison of cache names looks at
MaxProbe == 1000

(***************************************************************************)
(* The host's objects.  "Ghost" is a name the preferences can hold (a      *)
(* StringProperty) that no object of bpy.data.objects carries.             *)
(***************************************************************************)
Objects == {"Body", "Cube"}
ObjectNames == Objects \cup {"Ghost"}
NoObject == "<none>"
Modes == {"OBJECT", "EDIT", "WEIGHT_PAINT"}

\* obj.vertex_groups and obj.material_slots of the two objects
VertexGroups(o) == IF o = "Body" THEN {"Scalp"} ELSE {}
MaterialSlots(o) == IF o = "Body" THEN {"Skin"} ELSE {}

SystemTypes == {"hair", "fur", "eyelashes", "eyebrows", "arm_hair",
                "back_hair", "chest_hair", "leg_hair", "stubble"}
BucketTypes == {"hair", "fur", "eyelashes", "eyebrows"}
SegmentTypes == {"hair", "fur"}
Buckets == {"xs", "s", "m", "l", "xl"}
HairSegments == {"2", "3", "5", "7", "10", "15"}
FurSegments == {"3", "5", "7", "10", "15", "25"}

(***************************************************************************)
(* Strings.  str.upper() and int() are modelled on the strings the model   *)
(* uses; '{0:03d}'.format(n) is computed digit by digit.                   *)
(***************************************************************************)
Upper(s) ==
    CASE s = "Collision" -> "COLLISION"
      [] s = "COLLISION" -> "COLLISION"
      [] s = "Armature" -> "ARMATURE"
      [] OTHER -> s

ParseInt(s) ==
    CASE s = "2" -> 2 [] s = "3" -> 3 [] s = "5" -> 5 [] s = "7" -> 7
      [] s = "10" -> 10 [] s = "15" -> 15 [] s = "25" -> 25

Digit(d) == <<"0", "1", "2", "3", "4", "5", "6", "7", "8", "9">>[d + 1]

RECURSIVE Digits(_)
\* the decimal digits of n >= 0, most significant first
Digits(n) == IF n < 10 THEN <<n>> ELSE Append(Digits(n \div 10), n % 10)

RECURSIVE ZeroPad(_, _)
\* left-pads a digit sequence with zeros up to the width w
ZeroPad(ds, w) == IF Len(ds) >= w THEN ds ELSE ZeroPad(<<0>> \o ds, w)

\* the digits of '{0:03d}'.format(n)
Format03dDigits(n) == ZeroPad(Digits(n), 3)

RECURSIVE DigitString(_)
DigitString(ds) == IF ds = <<>> THEN "" ELSE Digit(Head(ds)) \o DigitString(Tail(ds))

\* '{0:03d}'.format(n)
Format03d(n) == DigitString(Format03dDigits(n))

\* bpy.path.basename(path): "" for the path of a file that was never saved
Basename(path) == IF path = <<>> THEN "" ELSE path[Len(path)]

(***************************************************************************)
(* The host's naming rule for ID blocks and particle systems: a name that  *)
(* is taken gets the first free ".NNN" suffix.                             *)
(***************************************************************************)
RECURSIVE UniqueFrom(_, _, _)
UniqueFrom(name, used, n) ==
    IF (name \o "." \o Format03d(n)) \notin used
    THEN name \o "." \o Format03d(n)
    ELSE UniqueFrom(name, used, n + 1)

UniqueName(name, used) == IF name \notin used THEN name ELSE UniqueFrom(name, used, 1)

Range(s) == {s[i] : i \in 1..Len(s)}

(***************************************************************************)
(* The add-on preferences (CreateHairSystemPreferencesPanel).  The per-type *)
(* properties (systemhair_material, systemfur_material, ...) are kept as   *)
(* one function from the system type to the property's value.              *)
(***************************************************************************)
DefaultParentAmount(t) == IF t \in BucketTypes THEN 100 ELSE 0
DefaultChildAmount(t) == IF t \in BucketTypes THEN 3000 ELSE 0
DefaultDynamics(t) == t \in {"hair", "fur"}

DefaultPreferences ==
    [ object_name |-> "",
      vertex_group_name |-> "",
      enum_hair_system |-> "hair",
      material |-> [t \in SystemTypes |-> ""],
      hair_length |-> [t \in BucketTypes |-> "m"],
      hair_thickness |-> [t \in BucketTypes |-> "m"],
      hair_segments |-> [t \in SegmentTypes |-> "7"],
      parent_particle_amount |-> [t \in SystemTypes |-> DefaultParentAmount(t)],
      child_display_render_particle_amount |-> [t \in SystemTypes |-> DefaultChildAmount(t)],
      hair_dynamics |-> [t \in SystemTypes |-> DefaultDynamics(t)] ]

(***************************************************************************)
(* The preset chain of execute(): one operator per branch.  Each bucket    *)
(* chain ends in a bare else, which is the xl row.                         *)
(***************************************************************************)
\* HairLengthOf with every row one bucket too long
HairLengthOf_RowShift(b) ==
    IF b = "xs" THEN 200000 ELSE IF b = "s" THEN 337500
    ELSE IF b = "m" THEN 475000 ELSE 750000

HairLengthOf(b) ==
    IF b = "xs" THEN 75000 ELSE IF b = "s" THEN 200000
    ELSE IF b = "m" THEN 337500 ELSE IF b = "l" THEN 475000 ELSE 750000

HairThicknessOf(b) ==
    IF b = "xs" THEN 10000 ELSE IF b = "s" THEN 30000
    ELSE IF b = "m" THEN 40000 ELSE IF b = "l" THEN 50000 ELSE 60000

\* FurChildLengthOf with the m and l rows exchanged
FurChildLengthOf_RowsSwapped(b) ==
    IF b = "xs" THEN 125000 ELSE IF b = "s" THEN 250000
    ELSE IF b = "m" THEN 750000 ELSE IF b = "l" THEN 500000 ELSE 1000000

FurChildLengthOf(b) ==
    IF b = "xs" THEN 125000 ELSE IF b = "s" THEN 250000
    ELSE IF b = "m" THEN 500000 ELSE IF b = "l" THEN 750000 ELSE 1000000

FurThicknessOf(b) ==
    IF b = "xs" THEN 25000 ELSE IF b = "s" THEN 68750
    ELSE IF b = "m" THEN 112500 ELSE IF b = "l" THEN 156250 ELSE 200000

EyelashesChildLengthOf(b) ==
    IF b = "xs" THEN 200000 ELSE IF b = "s" THEN 300000
    ELSE IF b = "m" THEN 400000 ELSE IF b = "l" THEN 500000 ELSE 1000000

EyelashesThicknessOf(b) ==
    IF b = "xs" THEN 9375 ELSE IF b = "s" THEN 18750
    ELSE IF b = "m" THEN 37500 ELSE IF b = "l" THEN 75000 ELSE 100000

EyebrowsChildLengthOf(b) ==
    IF b = "xs" THEN 250000 ELSE IF b = "s" THEN 500000
    ELSE IF b = "m" THEN 1000000 ELSE IF b = "l" THEN 1500000 ELSE 2000000

\* EyebrowsThicknessOf with the rows of the hair table
EyebrowsThicknessOf_HairRows(b) ==
    IF b = "xs" THEN 10000 ELSE IF b = "s" THEN 30000
    ELSE IF b = "m" THEN 40000 ELSE IF b = "l" THEN 50000 ELSE 60000

EyebrowsThicknessOf(b) ==
    IF b = "xs" THEN 50000 ELSE IF b = "s" THEN 10000
    ELSE IF b = "m" THEN 20000 ELSE IF b = "l" THEN 40000 ELSE 80000

\* the three preference reads that open every branch
PresetPrefs(p, t) ==
    [ parent_particle_amount |-> p.parent_particle_amount[t],
      child_display_render_particle_amount |-> p.child_display_render_particle_amount[t],
      hair_dynamics |-> p.hair_dynamics[t],
      material |-> p.material[t] ]

\* HairPreset with the length taken from the vertex group
HairPreset_LengthByVertexGroup(p) ==
    PresetPrefs(p, "hair") @@
    [ hair_segments |-> ParseInt(p.hair_segments["hair"]),
      strand_shape |-> -750000,
      clump |-> 900000, clump_shape |-> 0,
      use_emit_random |-> TRUE, userjit |-> 0,
      use_even_distribution |-> FALSE, jitter_factor |-> 1000000,
      use_length_vertex_group |-> TRUE,
      child_type |-> "SIMPLE", child_radius |-> 20000,
      hair_length |-> HairLengthOf(p.hair_length["hair"]),
      child_length |-> 1000000,
      hair_thickness |-> HairThicknessOf(p.hair_thickness["hair"]),
      hair_tip |-> 0, kink_type |-> "NO" ]

HairPreset(p) ==
    PresetPrefs(p, "hair") @@
    [ hair_segments |-> ParseInt(p.hair_segments["hair"]),
      strand_shape |-> -750000,
      clump |-> 900000, clump_shape |-> 0,
      use_emit_random |-> TRUE, userjit |-> 0,
      use_even_distribution |-> FALSE, jitter_factor |-> 1000000,
      use_length_vertex_group |-> FALSE,
      child_type |-> "SIMPLE", child_radius |-> 20000,
      hair_length |-> HairLengthOf(p.hair_length["hair"]),
      child_length |-> 1000000,
      hair_thickness |-> HairThicknessOf(p.hair_thickness["hair"]),
      hair_tip |-> 0, kink_type |-> "NO" ]

FurPreset(p) ==
    PresetPrefs(p, "fur") @@
    [ hair_segments |-> ParseInt(p.hair_segments["fur"]),
      strand_shape |-> -500000,
      hair_length |-> 25000,
      clump |-> 0, clump_shape |-> 0,
      use_emit_random |-> TRUE, userjit |-> 0,
      use_even_distribution |-> FALSE, jitter_factor |-> 1000000,
      use_length_vertex_group |-> TRUE,
      child_type |-> "INTERPOLATED", child_radius |-> 1000,
      child_length |-> FurChildLengthOf(p.hair_length["fur"]),
      hair_thickness |-> FurThicknessOf(p.hair_thickness["fur"]),
      hair_tip |-> 0, kink_type |-> "NO" ]

EyelashesPreset(p) ==
    PresetPrefs(p, "eyelashes") @@
    [ hair_segments |-> 5,
      strand_shape |-> -250000,
      hair_length |-> 25000,
      clump |-> 1000000, clump_shape |-> 999000,
      use_emit_random |-> FALSE, userjit |-> 1,
      use_even_distribution |-> TRUE, jitter_factor |-> 0,
      use_length_vertex_group |-> TRUE,
      child_type |-> "INTERPOLATED", child_radius |-> 1000,
      child_length |-> EyelashesChildLengthOf(p.hair_length["eyelashes"]),
      hair_thickness |-> EyelashesThicknessOf(p.hair_thickness["eyelashes"]),
      hair_tip |-> 0, kink_type |-> "NO" ]

EyebrowsPreset(p) ==
    PresetPrefs(p, "eyebrows") @@
    [ hair_segments |-> 3,
      strand_shape |-> -750000,
      hair_length |-> 60000,
      clump |-> 933000, clump_shape |-> 0,
      use_emit_random |-> TRUE, userjit |-> 0,
      use_even_distribution |-> FALSE, jitter_factor |-> 1000000,
      use_length_vertex_group |-> FALSE,
      child_type |-> "SIMPLE", child_radius |-> 1000,
      child_length |-> EyebrowsChildLengthOf(p.hair_length["eyebrows"]),
      hair_thickness |-> EyebrowsThicknessOf(p.hair_thickness["eyebrows"]),
      hair_tip |-> 0, kink_type |-> "NO" ]

\* the assignments that the five body-hair branches share
BodyHairCommon ==
    [ hair_segments |-> 3,
      hair_length |-> 60000,
      clump |-> 933000, clump_shape |-> 0,
      use_emit_random |-> TRUE, userjit |-> 0,
      use_even_distribution |-> FALSE, jitter_factor |-> 1000000,
      use_length_vertex_group |-> FALSE,
      child_type |-> "SIMPLE" ]

ArmHairPreset(p) ==
    PresetPrefs(p, "arm_hair") @@ BodyHairCommon @@
    [ strand_shape |-> -750000,
      child_radius |-> 25000, child_length |-> 500000,
      hair_thickness |-> 10000, hair_tip |-> 0,
      kink_type |-> "CURL", kink_amplitude |-> 1250, kink_clump |-> 100000,
      kink_flatness |-> 0, kink_frequency |-> 2000000, kink_shape |-> 0 ]

BackHairPreset(p) ==
    PresetPrefs(p, "back_hair") @@ BodyHairCommon @@
    [ strand_shape |-> -750000,
      child_radius |-> 40000, child_length |-> 200000,
      hair_thickness |-> 40000, hair_tip |-> 20000,
      kink_type |-> "CURL", kink_amplitude |-> 5000, kink_clump |-> 0,
      kink_flatness |-> 0, kink_frequency |-> 3000000, kink_shape |-> 0 ]

ChestHairPreset(p) ==
    PresetPrefs(p, "chest_hair") @@ BodyHairCommon @@
    [ strand_shape |-> -800000,
      child_radius |-> 40000, child_length |-> 600000,
      hair_thickness |-> 40000, hair_tip |-> 20000,
      kink_type |-> "CURL", kink_amplitude |-> 2500, kink_clump |-> 100000,
      kink_flatness |-> 0, kink_frequency |-> 4000000, kink_shape |-> 0 ]

LegHairPreset(p) ==
    PresetPrefs(p, "leg_hair") @@ BodyHairCommon @@
    [ strand_shape |-> -750000,
      child_radius |-> 40000, child_length |-> 400000,
      hair_thickness |-> 40000, hair_tip |-> 10000,
      kink_type |-> "CURL", kink_amplitude |-> 2500, kink_clump |-> 100000,
      kink_flatness |-> 0, kink_frequency |-> 4000000, kink_shape |-> 0 ]

\* StubblePreset with the kink lines of the leg-hair branch
StubblePreset_Curled(p) ==
    PresetPrefs(p, "stubble") @@ BodyHairCommon @@
    [ strand_shape |-> -800000,
      child_radius |-> 5000, child_length |-> 750000,
      hair_thickness |-> 20000, hair_tip |-> 100000,
      kink_type |-> "CURL", kink_amplitude |-> 2500, kink_clump |-> 100000,
      kink_flatness |-> 0, kink_frequency |-> 4000000, kink_shape |-> 0 ]

StubblePreset(p) ==
    PresetPrefs(p, "stubble") @@ BodyHairCommon @@
    [ strand_shape |-> -800000,
      child_radius |-> 5000, child_length |-> 750000,
      hair_thickness |-> 20000, hair_tip |-> 100000,
      kink_type |-> "NO" ]

\* the local variables that no branch has assigned
NoPreset == [x \in {} |-> 0]

\* DerivePreset without the stubble branch
DerivePreset_NoStubble(p) ==
    CASE p.enum_hair_system = "hair" -> HairPreset(p)
      [] p.enum_hair_system = "fur" -> FurPreset(p)
      [] p.enum_hair_system = "eyelashes" -> EyelashesPreset(p)
      [] p.enum_hair_system = "eyebrows" -> EyebrowsPreset(p)
      [] p.enum_hair_system = "arm_hair" -> ArmHairPreset(p)
      [] p.enum_hair_system = "back_hair" -> BackHairPreset(p)
      [] p.enum_hair_system = "chest_hair" -> ChestHairPreset(p)
      [] p.enum_hair_system = "leg_hair" -> LegHairPreset(p)
      [] OTHER -> NoPreset

\* the if/elif chain over enum_hair_system; no branch runs for any other value
DerivePreset(p) ==
    CASE p.enum_hair_system = "hair" -> HairPreset(p)
      [] p.enum_hair_system = "fur" -> FurPreset(p)
      [] p.enum_hair_system = "eyelashes" -> EyelashesPreset(p)
      [] p.enum_hair_system = "eyebrows" -> EyebrowsPreset(p)
      [] p.enum_hair_system = "arm_hair" -> ArmHairPreset(p)
      [] p.enum_hair_system = "back_hair" -> BackHairPreset(p)
      [] p.enum_hair_system = "chest_hair" -> ChestHairPreset(p)
      [] p.enum_hair_system = "leg_hair" -> LegHairPreset(p)
      [] p.enum_hair_system = "stubble" -> StubblePreset(p)
      [] OTHER -> NoPreset

(***************************************************************************)
(* Collision settings.  execute() carries thirteen of the fourteen fields  *)
(* over the removal of the modifier and sets the fourteenth itself.        *)
(***************************************************************************)
CollisionFields ==
    {"absorption", "permeability", "stickiness", "use_particle_kill",
     "damping_factor", "damping_random", "friction_factor", "friction_random",
     "damping", "cloth_friction", "use_culling", "use_normal", "thickness_inner"}

\* the values the locals collision_* start with
CodeDefaultCollision ==
    [ absorption |-> 0, permeability |-> 100000, stickiness |-> 100000,
      use_particle_kill |-> FALSE, damping_factor |-> 0, damping_random |-> 0,
      friction_factor |-> 0, friction_random |-> 0, damping |-> 100000,
      cloth_friction |-> 5000000, use_culling |-> TRUE, use_normal |-> FALSE,
      thickness_inner |-> 200000 ]

\* what the host gives a collision modifier it has just added
HostNewCollision ==
    [ absorption |-> 0, permeability |-> 0, stickiness |-> 0,
      use_particle_kill |-> FALSE, damping_factor |-> 0, damping_random |-> 0,
      friction_factor |-> 0, friction_random |-> 0, damping |-> 100000,
      cloth_friction |-> 5000000, use_culling |-> TRUE, use_normal |-> FALSE,
      thickness_inner |-> 200000, thickness_outer |-> 20000 ]

\* collision settings a user has tuned on "Body" and on "Cube"
UserCollisionBody ==
    [ absorption |-> 250000, permeability |-> 400000, stickiness |-> 300000,
      use_particle_kill |-> TRUE, damping_factor |-> 500000, damping_random |-> 150000,
      friction_factor |-> 350000, friction_random |-> 50000, damping |-> 700000,
      cloth_friction |-> 12000000, use_culling |-> FALSE, use_normal |-> TRUE,
      thickness_inner |-> 450000, thickness_outer |-> 60000 ]

UserCollisionCube ==
    [ absorption |-> 10000, permeability |-> 20000, stickiness |-> 800000,
      use_particle_kill |-> TRUE, damping_factor |-> 30000, damping_random |-> 40000,
      friction_factor |-> 60000, friction_random |-> 70000, damping |-> 90000,
      cloth_friction |-> 1000000, use_culling |-> FALSE, use_normal |-> TRUE,
      thickness_inner |-> 110000, thickness_outer |-> 15000 ]

\* obj.collision of an object without a collision modifier
NoCollision == [none |-> TRUE]
None == "<None>"

\* the thirteen reads of bpy.context.object.collision
CaptureCollision(c) == [f \in CollisionFields |-> c[f]]

\* RestoreCollision without the thickness_outer line
RestoreCollision_NoOuter(c, saved) ==
    [f \in DOMAIN c |-> IF f \in CollisionFields THEN saved[f] ELSE c[f]]

\* the thirteen writes and the thickness_outer write on a collision block c
RestoreCollision(c, saved) ==
    [f \in DOMAIN c |->
        IF f \in CollisionFields THEN saved[f]
        ELSE IF f = "thickness_outer" THEN 15000 ELSE c[f]]

\* FindCollisionModifierName comparing the name without upper()
RECURSIVE FindCollisionModifierName_CaseSensitive(_)
FindCollisionModifierName_CaseSensitive(stack) ==
    IF stack = <<>> THEN None
    ELSE IF Head(stack).name = "COLLISION" THEN Head(stack).name
    ELSE FindCollisionModifierName_CaseSensitive(Tail(stack))

\* the search loop over obj.modifiers: the name of the first match, or None
RECURSIVE FindCollisionModifierName(_)
FindCollisionModifierName(stack) ==
    IF stack = <<>> THEN None
    ELSE IF Upper(Head(stack).name) = "COLLISION" THEN Head(stack).name
    ELSE FindCollisionModifierName(Tail(stack))

\* ModifierRemove putting the stack back as it was
ModifierRemove_Undone(stack, name) == stack

\* bpy.ops.object.modifier_remove(modifier=name)
RECURSIVE ModifierRemove(_, _)
ModifierRemove(stack, name) ==
    IF stack = <<>> THEN <<>>
    ELSE IF Head(stack).name = name THEN Tail(stack)
    ELSE <<Head(stack)>> \o ModifierRemove(Tail(stack), name)

HasModifierOfType(stack, type) == \E i \in 1..Len(stack) : stack[i].type = type

\* bpy.ops.object.modifier_add(type='COLLISION'): an object carries at most
\* one collision modifier, and a second add leaves the stack as it is
ModifierAdd(stack, type) ==
    IF HasModifierOfType(stack, type) THEN stack
    ELSE Append(stack, [name |-> type, type |-> type])

\* bpy.ops.object.mode_set(mode=m): acts on the active object
ModeSet(modes, act, m) == [modes EXCEPT ![act] = m]

(***************************************************************************)
(* What the host gives a new particle system, its settings block, its      *)
(* point cache and its hair-dynamics cloth block.                          *)
(***************************************************************************)
HostNewSettings ==
    [ name |-> "ParticleSettings", type |-> "EMITTER",
      use_advanced_hair |-> FALSE, count |-> 1000, hair_length |-> 4000000,
      hair_step |-> 5, use_emit_random |-> TRUE, use_even_distribution |-> TRUE,
      userjit |-> 0, jitter_factor |-> 1000000, child_type |-> "NONE",
      child_nbr |-> 10, rendered_child_count |-> 100, child_length |-> 1000000,
      child_length_threshold |-> 0, clump_factor |-> 0, clump_shape |-> 0,
      child_radius |-> 200000, display_step |-> 2, material_slot |-> "",
      use_hair_bspline |-> FALSE, render_step |-> 3, shape |-> 0,
      root_radius |-> 1000000, tip_radius |-> 0,
      kink |-> "NO", kink_amplitude |-> 200000, kink_amplitude_clump |-> 1000000,
      kink_flat |-> 0, kink_frequency |-> 2000000, kink_shape |-> 0,
      factor_random |-> 0 ]

HostNewCache ==
    [ name |-> "", frame_start |-> 1, frame_end |-> 250,
      use_disk_cache |-> FALSE, compression |-> "NO" ]

HostNewCloth ==
    [ mass |-> 300000, bending_stiffness |-> 500000, bending_damping |-> 500000,
      distance_min |-> 15000 ]

\* particles.cloth of a system whose dynamics were never on
NoCloth == [none |-> TRUE]

HostNewParticleSystem ==
    [ name |-> "ParticleSystem", settings |-> 0,
      vertex_group_density |-> "", vertex_group_length |-> "",
      use_hair_dynamics |-> FALSE, cloth |-> NoCloth,
      point_caches |-> <<HostNewCache>> ]

SystemNames(systems) == {systems[i].name : i \in 1..Len(systems)}
BlockNames(blocks) == {blocks[i].name : i \in 1..Len(blocks)}

\* bpy.data.particles[name]: the position of the block with that name, 0 if none
BlockNamed(blocks, name) ==
    IF name \in BlockNames(blocks)
    THEN CHOOSE i \in 1..Len(blocks) : blocks[i].name = name
    ELSE 0

\* the names of all point caches of all particle systems of an object
CacheNames(systems) ==
    UNION {{systems[i].point_caches[j].name : j \in 1..Len(systems[i].point_caches)} :
              i \in 1..Len(systems)}

\* does_cache_name_exist_in_object returning after the first particle system
does_cache_name_exist_FirstSystemOnly(systems, proposed_name) ==
    /\ Len(systems) > 0
    /\ \E j \in 1..Len(systems[1].point_caches) :
            systems[1].point_caches[j].name = proposed_name

\* does_cache_name_exist_in_object, on the active object's particle systems
does_cache_name_exist_in_object(systems, proposed_name) ==
    \E i \in 1..Len(systems) :
        \E j \in 1..Len(systems[i].point_caches) :
            systems[i].point_caches[j].name = proposed_name

(***************************************************************************)
(* execute().  pc is the part of execute() that runs next; "idle" means    *)
(* that no call is under way.  An exception ends the call where it is      *)
(* raised (result "ERROR"): execute() has no handler but the one around    *)
(* the material slot.                                                      *)
(***************************************************************************)
InitialLocals ==
    [ SYSTEM_NAME |-> "", mode |-> "", obj |-> NoObject,
      collisionModifierName |-> None, saved |-> CodeDefaultCollision,
      params |-> NoPreset, psettings |-> 0,
      cache_name |-> "", original_cache_name |-> "", index_append |-> 0 ]

HostState ==
    [ active |-> active, selected |-> selected, mode |-> mode,
      modifiers |-> modifiers, collision |-> collision, psys |-> psys,
      particles |-> particles ]

\* a host mutation, as the log keeps it
Ev(op, o, what) == <<op, o, what>>

\* NotSaved with the test turned around
NotSaved_Inverted(path) == Len(Basename(path)) # 0

\* the check of the save identity that opens execute()
NotSaved(path) == Len(Basename(path)) = 0

\* SystemName without the vertex group
SystemName_TypeOnly(p) == p.enum_hair_system

\* SYSTEM_NAME: the system type, plus the vertex group in brackets
SystemName(p) ==
    IF p.vertex_group_name # ""
    THEN p.enum_hair_system \o " (" \o p.vertex_group_name \o ")"
    ELSE p.enum_hair_system

\* the user sets the preferences in the panel and presses the button:
\* the save check, then SYSTEM_NAME
ExecuteStart(r) ==
    /\ pc = "idle"
    /\ runs < budget
    /\ runs' = runs + 1
    /\ prefs' = r
    /\ entry' = HostState
    /\ log' = <<>>
    /\ IF NotSaved(filepath)
       THEN /\ result' = "CANCELLED"
            /\ pc' = "idle"
            /\ loc' = InitialLocals
       ELSE /\ result' = "RUNNING"
            /\ pc' = "part1"
            /\ loc' = [InitialLocals EXCEPT !.SYSTEM_NAME = SystemName(r)]
    /\ UNCHANGED <<filepath, scene, budget, active, selected, mode, modifiers, collision,
                   psys, particles>>

\* an exception leaves execute()
Raise == pc' = "idle" /\ result' = "ERROR"

\* Part 1: on the ACTIVE object, capture the collision values and remove the
\* collision modifier if the search finds one
Part1RemoveCollision ==
    /\ pc = "part1"
    /\ IF active = NoObject
       THEN /\ Raise
            /\ UNCHANGED <<mode, modifiers, collision, loc, log>>
       ELSE LET m == mode[active]
                obj == active
                name == FindCollisionModifierName(modifiers[obj])
                found == name # None
            IN  /\ loc' = [loc EXCEPT !.mode = m, !.obj = obj,
                                      !.collisionModifierName = name,
                                      !.saved = IF found
                                                THEN CaptureCollision(collision[active])
                                                ELSE CodeDefaultCollision]
                /\ modifiers' = IF found
                                THEN [modifiers EXCEPT ![active] = ModifierRemove(@, name)]
                                ELSE modifiers
                /\ collision' = IF found
                                THEN [collision EXCEPT ![active] = NoCollision]
                                ELSE collision
                /\ mode' = ModeSet(ModeSet(mode, active, "OBJECT"), active, m)
                /\ log' = log \o <<Ev("mode_set", active, "OBJECT")>>
                              \o (IF found THEN <<Ev("modifier_remove", active, name)>>
                                  ELSE <<>>)
                              \o <<Ev("mode_set", active, m)>>
                /\ pc' = "part2"
                /\ UNCHANGED result
    /\ UNCHANGED <<filepath, scene, budget, prefs, active, selected, psys, particles,
                   entry, runs>>

\* Part 2, first lines: capture the mode again, go to object mode, deselect
\* all, select_name(object_name)
Part2SelectTarget ==
    /\ pc = "part2"
    /\ LET m == mode[active]
           name == prefs.object_name
       IN  /\ loc' = [loc EXCEPT !.mode = m,
                                 !.obj = IF name \in Objects THEN name ELSE @]
           /\ mode' = ModeSet(mode, active, "OBJECT")
           /\ IF name \in Objects
              THEN /\ selected' = {name}
                   /\ active' = name
                   /\ log' = log \o <<Ev("mode_set", active, "OBJECT"),
                                      Ev("select_all", "", "DESELECT"),
                                      Ev("select_set", name, "True"),
                                      Ev("active", name, "")>>
                   /\ pc' = "add"
                   /\ UNCHANGED result
              ELSE \* bpy.data.objects.get(name) is None: ob.select_set raises
                   /\ selected' = {}
                   /\ log' = log \o <<Ev("mode_set", active, "OBJECT"),
                                      Ev("select_all", "", "DESELECT")>>
                   /\ Raise
                   /\ UNCHANGED active
    /\ UNCHANGED <<filepath, scene, budget, prefs, modifiers, collision, psys, particles,
                   entry, runs>>

\* particle_system_add, then the two renames and the type
Part2AddSystem ==
    /\ pc = "add"
    /\ LET obj == loc.obj
           sysname == UniqueName(loc.SYSTEM_NAME, SystemNames(psys[obj]))
           blockname == UniqueName(loc.SYSTEM_NAME, BlockNames(particles))
           block == Len(particles) + 1
       IN  /\ particles' = Append(particles,
                                  [HostNewSettings EXCEPT !.name = blockname,
                                                          !.type = "HAIR"])
           /\ psys' = [psys EXCEPT ![obj] =
                          Append(@, [HostNewParticleSystem EXCEPT !.name = sysname,
                                                                  !.settings = block])]
           /\ loc' = [loc EXCEPT !.psettings = block]
           /\ log' = log \o <<Ev("particle_system_add", obj, ""),
                              Ev("write", "particles", "name"),
                              Ev("write", "psettings", "name"),
                              Ev("write", "psettings", "type")>>
    /\ pc' = "preset"
    /\ UNCHANGED <<filepath, scene, budget, prefs, active, selected, mode, modifiers,
                   collision, result, entry, runs>>

\* the preset chain: no host call, only locals
Part2DerivePreset ==
    /\ pc = "preset"
    /\ loc' = [loc EXCEPT !.params = DerivePreset(prefs)]
    /\ pc' = "apply"
    /\ UNCHANGED <<filepath, scene, budget, prefs, active, selected, mode, modifiers,
                   collision, psys, particles, result, log, entry, runs>>

(***************************************************************************)
(* The application of the derived parameters to the new settings block.    *)
(***************************************************************************)
\* the locals that the application reads whatever the preset
BaseParams ==
    {"parent_particle_amount", "child_display_render_particle_amount",
     "hair_segments", "strand_shape", "hair_length", "hair_dynamics", "material",
     "clump", "clump_shape", "use_emit_random", "userjit", "use_even_distribution",
     "jitter_factor", "use_length_vertex_group", "child_type", "child_radius",
     "child_length", "hair_thickness", "hair_tip", "kink_type"}

\* the locals that it reads when kink_type is not 'NO'
KinkParams ==
    {"kink_amplitude", "kink_clump", "kink_flatness", "kink_frequency", "kink_shape"}

\* the settings written from use_advanced_hair down to display_step, in order
EmissionChildrenWrites ==
    <<"use_advanced_hair", "count", "hair_length", "hair_step", "use_emit_random",
      "use_even_distribution", "userjit", "jitter_factor", "child_type", "child_nbr",
      "rendered_child_count", "child_length", "child_length_threshold",
      "clump_factor", "clump_shape", "child_radius", "display_step">>

\* the settings written after the material slot
ShapeWrites == <<"use_hair_bspline", "render_step", "shape", "root_radius", "tip_radius">>

KinkWrites ==
    <<"kink", "kink_amplitude", "kink_amplitude_clump", "kink_flat",
      "kink_frequency", "kink_shape">>

WriteEvents(owner, fields) == [i \in 1..Len(fields) |-> Ev("write", owner, fields[i])]

\* ApplyEmissionChildren writing child_radius under "if child_type == 'SIMPLE'"
ApplyEmissionChildren_RadiusIfSimple(b, q) ==
    [b EXCEPT !.use_advanced_hair = TRUE,
              !.count = q.parent_particle_amount,
              !.hair_length = q.hair_length,
              !.hair_step = q.hair_segments,
              !.use_emit_random = q.use_emit_random,
              !.use_even_distribution = q.use_even_distribution,
              !.userjit = q.userjit,
              !.jitter_factor = q.jitter_factor,
              !.child_type = q.child_type,
              !.child_nbr = q.child_display_render_particle_amount,
              !.rendered_child_count = q.child_display_render_particle_amount,
              !.child_length = q.child_length,
              !.child_length_threshold = 0,
              !.clump_factor = q.clump,
              !.clump_shape = q.clump_shape,
              !.child_radius = IF q.child_type = "SIMPLE" THEN q.child_radius ELSE @,
              !.display_step = q.hair_segments]

ApplyEmissionChildren(b, q) ==
    [b EXCEPT !.use_advanced_hair = TRUE,
              !.count = q.parent_particle_amount,
              !.hair_length = q.hair_length,
              !.hair_step = q.hair_segments,
              !.use_emit_random = q.use_emit_random,
              !.use_even_distribution = q.use_even_distribution,
              !.userjit = q.userjit,
              !.jitter_factor = q.jitter_factor,
              !.child_type = q.child_type,
              !.child_nbr = q.child_display_render_particle_amount,
              !.rendered_child_count = q.child_display_render_particle_amount,
              !.child_length = q.child_length,
              !.child_length_threshold = 0,
              !.clump_factor = q.clump,
              !.clump_shape = q.clump_shape,
              !.child_radius = q.child_radius,
              !.display_step = q.hair_segments]

\* the host takes a material slot name only if the object has that slot
MaterialAccepted(material, obj) == material \in MaterialSlots(obj)

\* ApplyMaterial with the assignment going through whatever the host says
ApplyMaterial_Unchecked(b, material, obj) ==
    IF material # "" THEN [b EXCEPT !.material_slot = material] ELSE b

\* try: if material != '': psettings.material_slot = material / except: pass
ApplyMaterial(b, material, obj) ==
    IF material # "" /\ MaterialAccepted(material, obj)
    THEN [b EXCEPT !.material_slot = material]
    ELSE b

ApplyShape(b, q) ==
    [b EXCEPT !.use_hair_bspline = TRUE,
              !.render_step = q.hair_segments,
              !.shape = q.strand_shape,
              !.root_radius = q.hair_thickness,
              !.tip_radius = q.hair_tip]

\* ApplyKink without the kink_amplitude line
ApplyKink_NoAmplitude(b, q) ==
    IF q.kink_type # "NO"
    THEN [b EXCEPT !.kink = q.kink_type,
                   !.kink_amplitude_clump = q.kink_clump,
                   !.kink_flat = q.kink_flatness,
                   !.kink_frequency = q.kink_frequency,
                   !.kink_shape = q.kink_shape]
    ELSE b

ApplyKink(b, q) ==
    IF q.kink_type # "NO"
    THEN [b EXCEPT !.kink = q.kink_type,
                   !.kink_amplitude = q.kink_amplitude,
                   !.kink_amplitude_clump = q.kink_clump,
                   !.kink_flat = q.kink_flatness,
                   !.kink_frequency = q.kink_frequency,
                   !.kink_shape = q.kink_shape]
    ELSE b

\* the new particle system is the last one of obj
Last(o) == Len(psys[o])

\* Part2ApplySettings binding the length vertex group without the flag test
Part2ApplySettings_LengthUnguarded ==
    /\ pc = "apply"
    /\ LET obj == loc.obj
           q == loc.params
           vg == prefs.vertex_group_name
           assigned == BaseParams \subseteq DOMAIN q
       IN  IF vg # "" /\ vg \notin VertexGroups(obj)
           THEN \* obj.vertex_groups[vg] raises KeyError
                /\ Raise
                /\ UNCHANGED <<psys, particles, log>>
           ELSE IF ~assigned
           THEN \* no preset branch ran: the first read of an unassigned local raises
                /\ Raise
                /\ psys' = IF vg # ""
                           THEN [psys EXCEPT ![obj][Last(obj)].vertex_group_density = vg]
                           ELSE psys
                /\ particles' = IF vg # "" THEN particles
                                ELSE [particles EXCEPT ![loc.psettings].use_advanced_hair = TRUE]
                /\ log' = log \o (IF vg # ""
                                  THEN <<Ev("write", "particles", "vertex_group_density")>>
                                  ELSE <<Ev("write", "psettings", "use_advanced_hair")>>)
           ELSE /\ psys' = IF vg # ""
                           THEN [psys EXCEPT
                                   ![obj][Last(obj)].vertex_group_density = vg,
                                   ![obj][Last(obj)].vertex_group_length =
                                       vg]
                           ELSE psys
                /\ particles' = [particles EXCEPT ![loc.psettings] =
                                    ApplyKink(
                                      ApplyShape(
                                        ApplyMaterial(
                                          ApplyEmissionChildren(@, q), q.material, obj),
                                        q),
                                      q)]
                /\ log' = log
                     \o (IF vg # "" THEN <<Ev("write", "particles", "vertex_group_density")>>
                         ELSE <<>>)
                     \o (IF vg # "" /\ q.use_length_vertex_group = TRUE
                         THEN <<Ev("write", "particles", "vertex_group_length")>> ELSE <<>>)
                     \o WriteEvents("psettings", EmissionChildrenWrites)
                     \o (IF q.material # "" /\ MaterialAccepted(q.material, obj)
                         THEN <<Ev("write", "psettings", "material_slot")>> ELSE <<>>)
                     \o WriteEvents("psettings", ShapeWrites)
                     \o (IF q.kink_type # "NO" THEN WriteEvents("psettings", KinkWrites)
                         ELSE <<>>)
                /\ pc' = "dynamics"
                /\ UNCHANGED result
    /\ UNCHANGED <<filepath, scene, budget, prefs, active, selected, mode, modifiers,
                   collision, loc, entry, runs>>

\* the vertex group bindings, then every settings write down to the kink
Part2ApplySettings ==
    /\ pc = "apply"
    /\ LET obj == loc.obj
           q == loc.params
           vg == prefs.vertex_group_name
           assigned == BaseParams \subseteq DOMAIN q
       IN  IF vg # "" /\ vg \notin VertexGroups(obj)
           THEN \* obj.vertex_groups[vg] raises KeyError
                /\ Raise
                /\ UNCHANGED <<psys, particles, log>>
           ELSE IF ~assigned
           THEN \* no preset branch ran: the first read of an unassigned local raises
                /\ Raise
                /\ psys' = IF vg # ""
                           THEN [psys EXCEPT ![obj][Last(obj)].vertex_group_density = vg]
                           ELSE psys
                /\ particles' = IF vg # "" THEN particles
                                ELSE [particles EXCEPT ![loc.psettings].use_advanced_hair = TRUE]
                /\ log' = log \o (IF vg # ""
                                  THEN <<Ev("write", "particles", "vertex_group_density")>>
                                  ELSE <<Ev("write", "psettings", "use_advanced_hair")>>)
           ELSE /\ psys' = IF vg # ""
                           THEN [psys EXCEPT
                                   ![obj][Last(obj)].vertex_group_density = vg,
                                   ![obj][Last(obj)].vertex_group_length =
                                       IF q.use_length_vertex_group = TRUE THEN vg ELSE @]
                           ELSE psys
                /\ particles' = [particles EXCEPT ![loc.psettings] =
                                    ApplyKink(
                                      ApplyShape(
                                        ApplyMaterial(
                                          ApplyEmissionChildren(@, q), q.material, obj),
                                        q),
                                      q)]
                /\ log' = log
                     \o (IF vg # "" THEN <<Ev("write", "particles", "vertex_group_density")>>
                         ELSE <<>>)
                     \o (IF vg # "" /\ q.use_length_vertex_group = TRUE
                         THEN <<Ev("write", "particles", "vertex_group_length")>> ELSE <<>>)
                     \o WriteEvents("psettings", EmissionChildrenWrites)
                     \o (IF q.material # "" /\ MaterialAccepted(q.material, obj)
                         THEN <<Ev("write", "psettings", "material_slot")>> ELSE <<>>)
                     \o WriteEvents("psettings", ShapeWrites)
                     \o (IF q.kink_type # "NO" THEN WriteEvents("psettings", KinkWrites)
                         ELSE <<>>)
                /\ pc' = "dynamics"
                /\ UNCHANGED result
    /\ UNCHANGED <<filepath, scene, budget, prefs, active, selected, mode, modifiers,
                   collision, loc, entry, runs>>

\* ConfigureCloth without the distance_min line
ConfigureCloth_NoDistance(c) ==
    IF c # NoCloth
    THEN [c EXCEPT !.mass = 1000, !.bending_stiffness = 1000000,
                   !.bending_damping = 0]
    ELSE c

\* the four cloth writes under "if particles.cloth != None"
ConfigureCloth(c) ==
    IF c # NoCloth
    THEN [c EXCEPT !.mass = 1000, !.bending_stiffness = 1000000,
                   !.bending_damping = 0, !.distance_min = 1000]
    ELSE c

\* the host creates the cloth block of a hair system when its dynamics go on
EnableHairDynamics(sys) ==
    [sys EXCEPT !.use_hair_dynamics = TRUE,
                !.cloth = IF @ = NoCloth THEN HostNewCloth ELSE @]

\* use_hair_dynamics = True, the two factor_random writes, the cloth writes
Part2EnableDynamics ==
    /\ pc = "dynamics"
    /\ LET obj == loc.obj
           byName == BlockNamed(particles, loc.SYSTEM_NAME)
           enabled == EnableHairDynamics(psys[obj][Last(obj)])
           own == [particles EXCEPT ![loc.psettings].factor_random = 10000]
       IN  IF byName = 0
           THEN \* bpy.data.particles[SYSTEM_NAME] raises KeyError
                /\ Raise
                /\ psys' = [psys EXCEPT ![obj][Last(obj)] = enabled]
                /\ particles' = own
                /\ log' = log \o <<Ev("write", "particles", "use_hair_dynamics"),
                                   Ev("write", "psettings", "factor_random")>>
           ELSE /\ psys' = [psys EXCEPT ![obj][Last(obj)] =
                               [enabled EXCEPT !.cloth = ConfigureCloth(@)]]
                /\ particles' = [own EXCEPT ![byName].factor_random = 10000]
                /\ log' = log \o <<Ev("write", "particles", "use_hair_dynamics"),
                                   Ev("write", "psettings", "factor_random"),
                                   Ev("write", "bpy.data.particles[SYSTEM_NAME]",
                                      "factor_random")>>
                              \o (IF enabled.cloth # NoCloth
                                  THEN WriteEvents("cloth", <<"mass", "bending_stiffness",
                                                    "bending_damping", "distance_min">>)
                                  ELSE <<>>)
                /\ pc' = "cache_name"
                /\ UNCHANGED result
    /\ UNCHANGED <<filepath, scene, budget, prefs, active, selected, mode, modifiers,
                   collision, loc, entry, runs>>

(***************************************************************************)
(* The cache name.                                                         *)
(***************************************************************************)
\* CacheBaseName appending the vertex group without the test
CacheBaseName_AlwaysAppends(objname, vg) == objname \o " " \o vg

\* cache_name before the loop: the object's name, plus the vertex group
CacheBaseName(objname, vg) == IF vg # "" THEN objname \o " " \o vg ELSE objname

\* SuffixedName formatting the counter before its increment
SuffixedName_StaleCounter(original, n) == original \o "." \o Format03d(n - 1)

\* the name the loop body builds for a counter
SuffixedName(original, n) == original \o "." \o Format03d(n)

Part2CacheNameStart ==
    /\ pc = "cache_name"
    /\ LET base == CacheBaseName(loc.obj, prefs.vertex_group_name)
       IN  loc' = [loc EXCEPT !.cache_name = base,
                              !.original_cache_name = base,
                              !.index_append = 0]
    /\ pc' = "cache_loop"
    /\ UNCHANGED <<filepath, scene, budget, prefs, active, selected, mode, modifiers,
                   collision, psys, particles, result, log, entry, runs>>

\* Part2CacheNameLoop counting in twos
Part2CacheNameLoop_SkipsOne ==
    /\ pc = "cache_loop"
    /\ does_cache_name_exist_in_object(psys[active], loc.cache_name)
    /\ loc' = [loc EXCEPT !.index_append = @ + 2,
                          !.cache_name = SuffixedName(loc.original_cache_name,
                                                      loc.index_append + 2)]
    /\ UNCHANGED <<filepath, scene, budget, prefs, active, selected, mode, modifiers,
                   collision, psys, particles, pc, result, log, entry, runs>>

\* one turn of the while loop: the name is taken on the active object
Part2CacheNameLoop ==
    /\ pc = "cache_loop"
    /\ does_cache_name_exist_in_object(psys[active], loc.cache_name)
    /\ loc' = [loc EXCEPT !.index_append = @ + 1,
                          !.cache_name = SuffixedName(loc.original_cache_name,
                                                      loc.index_append + 1)]
    /\ UNCHANGED <<filepath, scene, budget, prefs, active, selected, mode, modifiers,
                   collision, psys, particles, pc, result, log, entry, runs>>

\* ConfigureCache without the two frame writes of lines 591-592
ConfigureCache_KeepFrames(c, name, sc) ==
    [c EXCEPT !.name = name,
              !.use_disk_cache = TRUE,
              !.compression = "HEAVY"]

\* the writes on point_caches[-1] of the new system
ConfigureCache(c, name, sc) ==
    [c EXCEPT !.name = name,
              !.frame_start = sc.frame_start,
              !.frame_end = sc.frame_end,
              !.use_disk_cache = TRUE,
              !.compression = "HEAVY"]

\* the loop is left, and the last point cache of the new system is written
Part2CacheWrite ==
    /\ pc = "cache_loop"
    /\ ~does_cache_name_exist_in_object(psys[active], loc.cache_name)
    /\ LET obj == loc.obj
           n == Len(psys[obj][Last(obj)].point_caches)
       IN  psys' = [psys EXCEPT ![obj][Last(obj)].point_caches[n] =
                       ConfigureCache(@, loc.cache_name, scene)]
    /\ log' = log \o WriteEvents("point_cache",
                       <<"name", "frame_start", "frame_end", "use_disk_cache",
                         "compression">>)
    /\ pc' = "finish2"
    /\ UNCHANGED <<filepath, scene, budget, prefs, active, selected, mode, modifiers,
                   collision, particles, loc, result, entry, runs>>

\* Part2Finish without the mode_set of line 602
Part2Finish_NoRestore ==
    /\ pc = "finish2"
    /\ LET obj == loc.obj
           off == ~loc.params.hair_dynamics
       IN  /\ psys' = IF off
                      THEN [psys EXCEPT ![obj][Last(obj)].use_hair_dynamics = FALSE]
                      ELSE psys
           /\ log' = log \o (IF off THEN <<Ev("write", "particles", "use_hair_dynamics")>>
                             ELSE <<>>)
    /\ pc' = "part3"
    /\ UNCHANGED <<filepath, scene, budget, prefs, active, selected, mode, modifiers,
                   collision, particles, loc, result, entry, runs>>

\* "if not hair_dynamics", then back to the mode captured in Part 2
Part2Finish ==
    /\ pc = "finish2"
    /\ LET obj == loc.obj
           off == ~loc.params.hair_dynamics
       IN  /\ psys' = IF off
                      THEN [psys EXCEPT ![obj][Last(obj)].use_hair_dynamics = FALSE]
                      ELSE psys
           /\ log' = log \o (IF off THEN <<Ev("write", "particles", "use_hair_dynamics")>>
                             ELSE <<>>)
                         \o <<Ev("mode_set", active, loc.mode)>>
    /\ mode' = ModeSet(mode, active, loc.mode)
    /\ pc' = "part3"
    /\ UNCHANGED <<filepath, scene, budget, prefs, active, selected, modifiers, collision,
                   particles, loc, result, entry, runs>>

\* Part 3: on the active object, add the collision modifier, write the
\* thirteen saved values and thickness_outer, and go back to the mode
Part3RestoreCollision ==
    /\ pc = "part3"
    /\ LET m == mode[active]
           had == HasModifierOfType(modifiers[active], "COLLISION")
           fresh == IF had THEN collision[active] ELSE HostNewCollision
       IN  /\ loc' = [loc EXCEPT !.mode = m]
           /\ modifiers' = [modifiers EXCEPT ![active] = ModifierAdd(@, "COLLISION")]
           /\ collision' = [collision EXCEPT ![active] =
                               RestoreCollision(fresh, loc.saved)]
           /\ mode' = ModeSet(ModeSet(mode, active, "OBJECT"), active, m)
           /\ log' = log \o <<Ev("mode_set", active, "OBJECT"),
                              Ev("modifier_add", active, "COLLISION")>>
                         \o WriteEvents("collision",
                              <<"absorption", "permeability", "stickiness",
                                "use_particle_kill", "damping_factor", "damping_random",
                                "friction_factor", "friction_random", "damping",
                                "cloth_friction", "use_culling", "use_normal",
                                "thickness_inner", "thickness_outer">>)
                         \o <<Ev("mode_set", active, m)>>
    /\ pc' = "idle"
    /\ result' = "FINISHED"
    /\ UNCHANGED <<filepath, scene, budget, prefs, active, selected, psys, particles,
                   entry, runs>>

\* every step of execute() after its start
Step ==
    \/ Part1RemoveCollision
    \/ Part2SelectTarget
    \/ Part2AddSystem
    \/ Part2DerivePreset
    \/ Part2ApplySettings
    \/ Part2EnableDynamics
    \/ Part2CacheNameStart
    \/ Part2CacheNameLoop
    \/ Part2CacheWrite
    \/ Part2Finish
    \/ Part3RestoreCollision

(***************************************************************************)
(* The states execute() is called in.                                      *)
(***************************************************************************)
SavedPath == <<"projects", "head.blend">>
UnsavedPath == <<>>

ArmatureModifier == [name |-> "Armature", type |-> "ARMATURE"]
\* a collision modifier added in the Physics tab is named "Collision"
UiCollisionModifier == [name |-> "Collision", type |-> "COLLISION"]

BodyStack(c) == IF c THEN <<ArmatureModifier, UiCollisionModifier>> ELSE <<ArmatureModifier>>
CubeStack(c) == IF c THEN <<UiCollisionModifier>> ELSE <<>>

\* a particle system the user has made on "Body" by hand, and its settings
UserSettings == [HostNewSettings EXCEPT !.name = "Old", !.type = "HAIR"]

UserSystem(cachenames) ==
    [HostNewParticleSystem EXCEPT
        !.name = "Old", !.settings = 1,
        !.point_caches = [i \in 1..Len(cachenames) |->
                             [HostNewCache EXCEPT !.name = cachenames[i]]]]

\* a scene: cb, cc say whether Body and Cube carry a collision modifier, a is
\* the active object and m its mode
HostInit(a, m, cb, cc) ==
    /\ active = a
    /\ selected = IF a = NoObject THEN {} ELSE {a}
    /\ mode = [o \in Objects |-> IF o = a THEN m ELSE "OBJECT"]
    /\ modifiers = [o \in Objects |-> IF o = "Body" THEN BodyStack(cb) ELSE CubeStack(cc)]
    /\ collision = [o \in Objects |->
                      IF o = "Body" THEN (IF cb THEN UserCollisionBody ELSE NoCollision)
                      ELSE (IF cc THEN UserCollisionCube ELSE NoCollision)]

\* any active object (or none), in any mode, with or without collision modifiers
AnyHostInit ==
    \E a \in Objects \cup {NoObject}, m \in Modes, cb \in BOOLEAN, cc \in BOOLEAN :
        /\ (a = NoObject => m = "OBJECT")
        /\ HostInit(a, m, cb, cc)

\* no particle system anywhere
NoSystemsInit ==
    /\ psys = [o \in Objects |-> <<>>]
    /\ particles = <<>>

\* "Body" carries one hand-made particle system with these cache names
OldSystemInit(cachenames) ==
    /\ psys = [o \in Objects |-> IF o = "Body" THEN <<UserSystem(cachenames)>> ELSE <<>>]
    /\ particles = <<UserSettings>>

ControlInit(n) ==
    /\ prefs = DefaultPreferences
    /\ pc = "idle"
    /\ loc = InitialLocals
    /\ result = "NONE"
    /\ log = <<>>
    /\ runs = 0
    /\ budget = n

(***************************************************************************)
(* Spec: up to MaxRuns calls in a row, on any scene, for any object name   *)
(* and with or without a vertex group.  The system type is one of three,   *)
(* one of each shape of preset: buckets with SIMPLE children (hair),       *)
(* buckets with INTERPOLATED children and a length vertex group (fur), a   *)
(* fixed preset with a kink (arm_hair).                                    *)
(***************************************************************************)
Init ==
    /\ filepath \in {SavedPath, UnsavedPath}
    /\ scene = [frame_start |-> 1, frame_end |-> 250]
    /\ AnyHostInit
    /\ NoSystemsInit
    /\ ControlInit(MaxRuns)
    /\ entry = HostState

MainTypes == {"hair", "fur", "arm_hair"}

MainRequests ==
    {[DefaultPreferences EXCEPT !.enum_hair_system = t, !.object_name = o,
                                !.vertex_group_name = vg] :
        t \in MainTypes, o \in ObjectNames, vg \in {"", "Scalp"}}

Next ==
    \/ (pc = "idle" /\ \E r \in MainRequests : ExecuteStart(r))
    \/ Step

Spec == Init /\ [][Next]_vars

(***************************************************************************)
(* SpecCall: one call, on any scene, for every system type, object name,   *)
(* vertex group, dynamics flag and material; the buckets and the segments  *)
(* at their defaults.  "Body" carries a hand-made system whose cache is    *)
(* named "Body".                                                           *)
(***************************************************************************)
InitCall ==
    /\ filepath \in {SavedPath, UnsavedPath}
    /\ scene = [frame_start |-> 1, frame_end |-> 250]
    /\ AnyHostInit
    /\ OldSystemInit(<<"Body">>)
    /\ ControlInit(1)
    /\ entry = HostState

Materials == {"", "Skin", "Fuzz"}

CallRequests ==
    {[DefaultPreferences EXCEPT !.enum_hair_system = t, !.object_name = o,
                                !.vertex_group_name = vg,
                                !.hair_dynamics[t] = d,
                                !.material[t] = mat] :
        t \in SystemTypes, o \in ObjectNames, vg \in {"", "Scalp"},
        d \in BOOLEAN, mat \in Materials}

NextCall ==
    \/ (pc = "idle" /\ \E r \in CallRequests : ExecuteStart(r))
    \/ Step

SpecCall == InitCall /\ [][NextCall]_vars

(***************************************************************************)
(* SpecPreset: one call for "Body", active and in object mode, for every   *)
(* system type with every length bucket, thickness bucket and segment      *)
(* count, either dynamics flag, with or without the vertex group and the   *)
(* material.  "Body" carries a hand-made system whose cache is "Body".     *)
(***************************************************************************)
InitPreset ==
    /\ filepath = SavedPath
    /\ scene \in {[frame_start |-> 1, frame_end |-> 250]}
    /\ \E cb \in BOOLEAN : HostInit("Body", "OBJECT", cb, FALSE)
    /\ OldSystemInit(<<"Body">>)
    /\ ControlInit(1)
    /\ entry = HostState

LengthsOf(t) == IF t \in BucketTypes THEN Buckets ELSE {"m"}
SegmentsOf(t) == IF t = "hair" THEN HairSegments ELSE IF t = "fur" THEN FurSegments ELSE {"7"}

\* the preferences with the properties of type t set
WithType(t, len, thick, seg, d, mat) ==
    [DefaultPreferences EXCEPT
        !.enum_hair_system = t,
        !.hair_length = IF t \in BucketTypes THEN [@ EXCEPT ![t] = len] ELSE @,
        !.hair_thickness = IF t \in BucketTypes THEN [@ EXCEPT ![t] = thick] ELSE @,
        !.hair_segments = IF t \in SegmentTypes THEN [@ EXCEPT ![t] = seg] ELSE @,
        !.hair_dynamics[t] = d,
        !.material[t] = mat]

PresetRequests ==
    UNION {
      {[WithType(t, len, thick, seg, d, mat) EXCEPT
            !.object_name = "Body", !.vertex_group_name = vg] :
          len \in LengthsOf(t), thick \in LengthsOf(t), seg \in SegmentsOf(t),
          d \in BOOLEAN, mat \in {"", "Skin"}, vg \in {"", "Scalp"}} :
      t \in SystemTypes}

NextPreset ==
    \/ (pc = "idle" /\ \E r \in PresetRequests : ExecuteStart(r))
    \/ Step

SpecPreset == InitPreset /\ [][NextPreset]_vars

(***************************************************************************)
(* SpecCache: up to MaxRuns calls for "Body", active and in object mode,   *)
(* as hair or fur, with or without the vertex group.  "Body" starts with   *)
(* hand-made particle systems whose point caches carry any choice of the   *)
(* names of NameUniverse, spread over two systems, or with one system      *)
(* whose caches are "Body", "Body.001", ... up to the counter ManyCaches.  *)
(***************************************************************************)
NameUniverse == <<"Body", "Body.001", "Body.002", "Body Scalp">>

\* the counter of the last name of the long run of taken names
ManyCaches == 101

\* the names of NameUniverse that place puts into system k, in order
RECURSIVE PickNames(_, _, _)
PickNames(place, k, i) ==
    IF i > Len(NameUniverse) THEN <<>>
    ELSE (IF place[i] = k THEN <<NameUniverse[i]>> ELSE <<>>)
         \o PickNames(place, k, i + 1)

\* "Body", "Body.001", ..., "Body.<n>"
TakenRun(n) == [i \in 1..(n + 1) |-> IF i = 1 THEN "Body" ELSE SuffixedName("Body", i - 1)]

\* one hand-made system per non-empty list of cache names
OldSystems(lists) ==
    LET full == SelectSeq(lists, LAMBDA l : l # <<>>)
    IN  [i \in 1..Len(full) |-> [UserSystem(full[i]) EXCEPT
                                    !.name = UniqueName("Old", {"Old" : j \in 1..(i - 1)}),
                                    !.settings = i]]

OldBlocks(lists) ==
    LET full == SelectSeq(lists, LAMBDA l : l # <<>>)
    IN  [i \in 1..Len(full) |-> [UserSettings EXCEPT
                                    !.name = UniqueName("Old", {"Old" : j \in 1..(i - 1)})]]

CacheListsInit(lists) ==
    /\ psys = [o \in Objects |-> IF o = "Body" THEN OldSystems(lists) ELSE <<>>]
    /\ particles = OldBlocks(lists)

InitCache ==
    /\ filepath = SavedPath
    /\ scene = [frame_start |-> 1, frame_end |-> 250]
    /\ \E cb \in BOOLEAN : HostInit("Body", "OBJECT", cb, FALSE)
    /\ \/ \E place \in [1..Len(NameUniverse) -> 0..2] :
             CacheListsInit(<<PickNames(place, 1, 1), PickNames(place, 2, 1)>>)
       \/ CacheListsInit(<<TakenRun(ManyCaches)>>)
    /\ ControlInit(MaxRuns)
    /\ entry = HostState

CacheRequests ==
    {[DefaultPreferences EXCEPT !.enum_hair_system = t, !.object_name = "Body",
                                !.vertex_group_name = vg] :
        t \in {"hair", "fur"}, vg \in {"", "Scalp"}}

NextCache ==
    \/ (pc = "idle" /\ \E r \in CacheRequests : ExecuteStart(r))
    \/ Step

SpecCache == InitCache /\ [][NextCache]_vars

(***************************************************************************)
(* The claims.                                                             *)
(***************************************************************************)
\* the last call has returned FINISHED and no other call has started
Finished == pc = "idle" /\ result = "FINISHED"

\* the object named in the request
Target == prefs.object_name

\* C1: when the file was never saved (the basename of the blend file path is
\* empty), a call of execute() returns CANCELLED and has made no host
\* mutation: the log of host calls is empty and the active object, the
\* selection, the modes, the modifier stacks, the collision settings, the
\* particle systems with their caches and the settings blocks are what they
\* were when the call started.
C1_CancelledWithoutMutation ==
    (filepath = UnsavedPath /\ runs > 0) =>
        /\ pc = "idle"
        /\ result = "CANCELLED"
        /\ log = <<>>
        /\ HostState = entry

\* C1 witness: a call on an unsaved file has returned, on a scene where the
\* active object carries a collision modifier and is not in object mode
C1_Witness ==
    /\ filepath = UnsavedPath
    /\ runs = 1
    /\ result = "CANCELLED"
    /\ active = "Body"
    /\ mode["Body"] = "EDIT"
    /\ HasModifierOfType(modifiers["Body"], "COLLISION")

\* C2: in every call, in the state where hair dynamics has just been enabled
\* on the new particle system, the object named in the request carries no
\* collision modifier.
C2_NoCollisionWhenDynamicsEnabled ==
    pc = "cache_name" => ~HasModifierOfType(modifiers[Target], "COLLISION")

\* C3: if the object named in the request carries a collision modifier when
\* the call starts, then after a call that returns FINISHED each of the
\* thirteen CollisionState fields of its collision settings has the value it
\* had when the call started.
C3_CollisionRoundTrip ==
    (Finished /\ HasModifierOfType(entry.modifiers[Target], "COLLISION")) =>
        \A f \in CollisionFields : collision[Target][f] = entry.collision[Target][f]

\* C4: after every call that returns FINISHED the object named in the request
\* carries a collision modifier whose thickness_outer is 0.015, whether or not
\* it carried one before and whatever the system type.
C4_OuterThickness ==
    Finished =>
        /\ HasModifierOfType(modifiers[Target], "COLLISION")
        /\ collision[Target].thickness_outer = 15000

\* C4 witness: a call has returned FINISHED for an object that had no
\* collision modifier when it started
C4_Witness ==
    /\ Finished
    /\ ~HasModifierOfType(entry.modifiers[Target], "COLLISION")
    /\ prefs.enum_hair_system = "stubble"

\* the names of all point caches of the systems, one entry per cache
RECURSIVE AllCacheNames(_)
AllCacheNames(systems) ==
    IF systems = <<>> THEN <<>>
    ELSE [j \in 1..Len(Head(systems).point_caches) |-> Head(systems).point_caches[j].name]
         \o AllCacheNames(Tail(systems))

\* the names a naming has given: a cache not named yet has the host's blank name
NamedCaches(systems) == SelectSeq(AllCacheNames(systems), LAMBDA n : n # "")

NoDuplicates(names) == Cardinality(Range(names)) = Len(names)

\* the current call has left the naming loop and written the cache name
CacheNamed == pc \in {"finish2", "part3"} \/ Finished

\* the particle system the current call has added
NewSystem == psys[loc.obj][Last(loc.obj)]

\* the point cache the current call has configured
NewCache == NewSystem.point_caches[Len(NewSystem.point_caches)]

\* the cache names on the target when the current call started
ExistingNames == CacheNames(entry.psys[Target])

\* C5: starting from an object whose cache names are pairwise distinct, at
\* every point of any sequence of calls the named point caches of each object
\* have pairwise distinct names (so the names given by the calls differ from
\* each other and from the names that were there first), and the name a call
\* gives is never one that was on the object when the call started.
C5_CacheNamesUnique ==
    /\ \A o \in Objects : NoDuplicates(NamedCaches(psys[o]))
    /\ CacheNamed => /\ NewCache.name = loc.cache_name
                     /\ NewCache.name # ""
                     /\ NewCache.name \notin ExistingNames

\* C5 witness: the second of two FINISHED calls with the same base name, on
\* an object that started with that base name taken in its second system
C5_Witness ==
    /\ Finished
    /\ runs = 2
    /\ loc.index_append >= 2
    /\ Len(entry.psys["Body"]) >= 3
    /\ \E j \in 1..Len(psys["Body"][2].point_caches) :
          psys["Body"][2].point_caches[j].name = loc.original_cache_name

\* C6: if the base name (the object's name, plus a space and the vertex group
\* when one is selected) is not the name of any point cache on the object,
\* the cache is given exactly the base name and the counter stays 0.
C6_FreeBaseNameKept ==
    LET base == IF prefs.vertex_group_name = "" THEN Target
                ELSE Target \o " " \o prefs.vertex_group_name
    IN  (CacheNamed /\ base \notin ExistingNames) =>
            /\ NewCache.name = base
            /\ loc.index_append = 0

\* C6 witness: a call with and a call without the vertex group has named its
\* cache while other names were taken on the object
C6_Witness ==
    /\ CacheNamed
    /\ prefs.vertex_group_name = "Scalp"
    /\ "Body" \in ExistingNames
    /\ "Body Scalp" \notin ExistingNames
    /\ NewCache.name = "Body Scalp"

\* a comes strictly before b in lexicographic order (digit sequences)
RECURSIVE LexLess(_, _)
LexLess(a, b) ==
    IF b = <<>> THEN FALSE
    ELSE IF a = <<>> THEN TRUE
    ELSE IF Head(a) # Head(b) THEN Head(a) < Head(b)
    ELSE LexLess(Tail(a), Tail(b))

\* the base name of the claims: the object's name, plus a space and the
\* vertex group when one is selected
ClaimBaseName ==
    IF prefs.vertex_group_name = "" THEN Target
    ELSE Target \o " " \o prefs.vertex_group_name

\* the name of the claims for a counter: base, a dot, the counter at width 3
ClaimName(n) == ClaimBaseName \o "." \o Format03d(n)

\* the digits of '{0:03d}'.format(k) for every counter up to MaxProbe
ProbeDigits == [k \in 1..MaxProbe |-> Format03dDigits(k)]

\* no free name with a counter up to MaxProbe comes before the one of n in
\* lexicographic order (the names share the base and the dot)
LexicographicallyFirst(n) ==
    \A k \in 1..MaxProbe :
        LexLess(ProbeDigits[k], Format03dDigits(n)) => ClaimName(k) \in ExistingNames

\* C7 as stated: whenever the base name is taken, the cache gets the
\* lexicographically-first name base.NNN (counter >= 1, zero-padded to width
\* 3) that is not taken.
C7_LexicographicallyFirstFree ==
    (CacheNamed /\ ClaimBaseName \in ExistingNames) =>
        /\ loc.index_append >= 1
        /\ NewCache.name = ClaimName(loc.index_append)
        /\ NewCache.name \notin ExistingNames
        /\ LexicographicallyFirst(loc.index_append)

\* C7 as amended: whenever the base name is taken, the cache gets base.NNN
\* for the smallest counter n >= 1 whose name is not taken (every name with a
\* smaller counter is taken); that name is the lexicographically-first free
\* one as long as n <= 100; with "Body" and "Body.001" taken it is "Body.002".
C7_SmallestFreeCounter ==
    (CacheNamed /\ ClaimBaseName \in ExistingNames) =>
        /\ loc.index_append >= 1
        /\ NewCache.name = ClaimName(loc.index_append)
        /\ NewCache.name \notin ExistingNames
        /\ \A k \in 1..(loc.index_append - 1) : ClaimName(k) \in ExistingNames
        /\ (loc.index_append <= 100 => LexicographicallyFirst(loc.index_append))
        /\ (ExistingNames = {"Body", "Body.001"} /\ prefs.vertex_group_name = ""
               => NewCache.name = "Body.002")

\* C7 witness: "Body" and "Body.001" are taken and the cache is named "Body.002"
C7_Witness ==
    /\ CacheNamed
    /\ ExistingNames = {"Body", "Body.001"}
    /\ prefs.vertex_group_name = ""
    /\ NewCache.name = "Body.002"

\* C8: after every call that returns FINISHED, every object is in the mode it
\* was in when the call started: the object that was active then, and every
\* other object.
C8_ModeRestored ==
    Finished => mode = entry.mode

\* the current call has run the preset chain
PresetDerived ==
    \/ result = "RUNNING" /\ pc \in {"apply", "dynamics", "cache_name", "cache_loop",
                                     "finish2", "part3"}
    \/ Finished

\* the current call has written the derived parameters to the settings
SettingsApplied ==
    \/ result = "RUNNING" /\ pc \in {"dynamics", "cache_name", "cache_loop",
                                     "finish2", "part3"}
    \/ Finished

\* the settings block of the particle system the current call has added
NewSettings == particles[NewSystem.settings]

\* C9: hair with length bucket M, thickness bucket M and 7 segments derives
\* hairLength 0.3375, childLength 1, root thickness 0.04, 7 segments, child
\* distribution SIMPLE and clump 0.9, and these are the values the new
\* system's settings hold once they are applied.
C9_HairMediumMedium ==
    ( /\ prefs.enum_hair_system = "hair"
      /\ prefs.hair_length["hair"] = "m"
      /\ prefs.hair_thickness["hair"] = "m"
      /\ prefs.hair_segments["hair"] = "7" ) =>
        /\ PresetDerived =>
              /\ loc.params.hair_length = 337500
              /\ loc.params.child_length = 1000000
              /\ loc.params.hair_thickness = 40000
              /\ loc.params.hair_segments = 7
              /\ loc.params.child_type = "SIMPLE"
              /\ loc.params.clump = 900000
        /\ SettingsApplied =>
              /\ NewSettings.hair_length = 337500
              /\ NewSettings.child_length = 1000000
              /\ NewSettings.root_radius = 40000
              /\ NewSettings.hair_step = 7
              /\ NewSettings.child_type = "SIMPLE"
              /\ NewSettings.clump_factor = 900000

\* C9 witness: such a call has returned FINISHED
C9_Witness ==
    /\ Finished
    /\ prefs.enum_hair_system = "hair"
    /\ prefs.hair_length["hair"] = "m"
    /\ prefs.hair_thickness["hair"] = "m"
    /\ prefs.hair_segments["hair"] = "7"
    /\ prefs.vertex_group_name = ""
    /\ Target = "Body"
    /\ NewSettings.hair_length = 337500

\* C10: eyebrows with length bucket S and thickness bucket L derive
\* childLength 0.5, root thickness 0.04, 3 segments, strand shape -0.75 and
\* use_length_vertex_group false.
C10_EyebrowsSmallLarge ==
    ( /\ prefs.enum_hair_system = "eyebrows"
      /\ prefs.hair_length["eyebrows"] = "s"
      /\ prefs.hair_thickness["eyebrows"] = "l"
      /\ PresetDerived ) =>
        /\ loc.params.child_length = 500000
        /\ loc.params.hair_thickness = 40000
        /\ loc.params.hair_segments = 3
        /\ loc.params.strand_shape = -750000
        /\ loc.params.use_length_vertex_group = FALSE

\* C10 witness: such a call has run the preset chain
C10_Witness ==
    /\ pc = "apply"
    /\ prefs.enum_hair_system = "eyebrows"
    /\ prefs.hair_length["eyebrows"] = "s"
    /\ prefs.hair_thickness["eyebrows"] = "l"
    /\ loc.params.child_length = 500000

(***************************************************************************)
(* The bucket tables, read along the order of the enum items.              *)
(***************************************************************************)
\* the bucket that follows b in the items of the length and thickness enums
NextBucket == [b \in {"xs", "s", "m", "l"} |->
                 IF b = "xs" THEN "s" ELSE IF b = "s" THEN "m"
                 ELSE IF b = "m" THEN "l" ELSE "xl"]

\* the system type of the current request
Type == prefs.enum_hair_system

\* what the preset chain derives for the current request with the thickness
\* (the length) of its type moved to the next bucket
WithNextThickness ==
    DerivePreset([prefs EXCEPT !.hair_thickness[Type] = NextBucket[@]])
WithNextLength ==
    DerivePreset([prefs EXCEPT !.hair_length[Type] = NextBucket[@]])

\* C11: for hair, fur, eyelashes and eyebrows the derived root thickness of a
\* thickness bucket is at most the derived root thickness of the next bucket.
C11_ThicknessNonDecreasing ==
    ( /\ PresetDerived
      /\ Type \in BucketTypes
      /\ prefs.hair_thickness[Type] \in DOMAIN NextBucket ) =>
        loc.params.hair_thickness <= WithNextThickness.hair_thickness

\* C12: for hair, fur, eyelashes and eyebrows the derived childLength of a
\* length bucket is at most the derived childLength of the next bucket: equal
\* for hair, strictly smaller for the other three.
C12_ChildLengthNonDecreasing ==
    ( /\ PresetDerived
      /\ Type \in BucketTypes
      /\ prefs.hair_length[Type] \in DOMAIN NextBucket ) =>
        IF Type = "hair"
        THEN loc.params.child_length = WithNextLength.child_length
        ELSE loc.params.child_length < WithNextLength.child_length

\* C12 witness: a fur call with length bucket L has run the preset chain,
\* and the XL row is longer
C12_Witness ==
    /\ pc = "apply"
    /\ Type = "fur"
    /\ prefs.hair_length["fur"] = "l"
    /\ loc.params.child_length = 750000
    /\ WithNextLength.child_length = 1000000

(***************************************************************************)
(* Hair dynamics of the new system.                                        *)
(***************************************************************************)
\* the dynamics constants of the cloth block
DynamicsConstants ==
    [ mass |-> 1000, bending_stiffness |-> 1000000, bending_damping |-> 0,
      distance_min |-> 1000 ]

\* the log events that touch the hair dynamics, in the order they happened
IsDynamicsEvent(e) ==
    \/ e = Ev("write", "particles", "use_hair_dynamics")
    \/ e[1] = "write" /\ e[2] = "cloth"
DynamicsEvents == SelectSeq(log, IsDynamicsEvent)

\* the enabling write followed by the four cloth writes
EnableThenConfigure ==
    <<Ev("write", "particles", "use_hair_dynamics")>>
    \o WriteEvents("cloth", <<"mass", "bending_stiffness", "bending_damping",
                              "distance_min">>)

\* C13: in every call the new system's hair dynamics are off until they are
\* enabled; once enabled the cloth block holds vertex mass 0.001, bending
\* stiffness 1.0, bending damping 0 and minimum distance 0.001 while
\* use_hair_dynamics is true; the only later write of use_hair_dynamics is the
\* disabling one, made iff the requested flag is false; after a FINISHED call
\* use_hair_dynamics equals the requested flag.
C13_EnableThenMaybeDisable ==
    /\ (result = "RUNNING" /\ pc \in {"preset", "apply", "dynamics"}) =>
          /\ NewSystem.use_hair_dynamics = FALSE
          /\ DynamicsEvents = <<>>
    /\ (result = "RUNNING" /\ pc \in {"cache_name", "cache_loop", "finish2"}) =>
          /\ NewSystem.use_hair_dynamics = TRUE
          /\ NewSystem.cloth = DynamicsConstants
          /\ DynamicsEvents = EnableThenConfigure
    /\ ((result = "RUNNING" /\ pc = "part3") \/ Finished) =>
          /\ NewSystem.use_hair_dynamics = prefs.hair_dynamics[Type]
          /\ NewSystem.cloth = DynamicsConstants
          /\ DynamicsEvents =
                EnableThenConfigure
                \o (IF prefs.hair_dynamics[Type] THEN <<>>
                    ELSE <<Ev("write", "particles", "use_hair_dynamics")>>)

\* C13 witness: a FINISHED call that asked for no dynamics has switched them
\* on, written the constants and switched them off again
C13_Witness ==
    /\ Finished
    /\ prefs.hair_dynamics[Type] = FALSE
    /\ NewSystem.use_hair_dynamics = FALSE
    /\ NewSystem.cloth = DynamicsConstants
    /\ Len(DynamicsEvents) = 6

(***************************************************************************)
(* SpecUnlisted: one call for "Body" as in SpecPreset, for hair, fur,      *)
(* eyelashes and eyebrows, where the length or the thickness enum (or      *)
(* both) reads as the empty identifier: what the host hands out for an     *)
(* enum property whose stored value matches none of its items.             *)
(***************************************************************************)
UnlistedBucket == ""

UnlistedRequests ==
    UNION {
      {[WithType(t, len, thick, "7", d, "") EXCEPT
            !.object_name = "Body", !.vertex_group_name = vg] :
          len \in Buckets \cup {UnlistedBucket},
          thick \in Buckets \cup {UnlistedBucket},
          d \in BOOLEAN, vg \in {"", "Scalp"}} :
      t \in BucketTypes}

NextUnlisted ==
    \/ (pc = "idle" /\ \E r \in UnlistedRequests : ExecuteStart(r))
    \/ Step

SpecUnlisted == InitPreset /\ [][NextUnlisted]_vars

\* C14: for hair, fur, eyelashes and eyebrows, a call whose length or
\* thickness bucket is none of xs, s, m, l, xl never gets past the preset
\* chain with derived parameters: the derivation fails.
C14_UnlistedBucketFails ==
    ( /\ Type \in BucketTypes
      /\ \/ prefs.hair_length[Type] \notin Buckets
         \/ prefs.hair_thickness[Type] \notin Buckets ) =>
        ~PresetDerived

(***************************************************************************)
(* The preset chain as a whole.                                            *)
(***************************************************************************)
\* C15: for every system type and every combination of buckets, the preset
\* chain runs the branch of the requested type and leaves every local
\* assigned that the application reads, the kink locals included whenever
\* kink_type is not 'NO'; the derived parameters are a function of the
\* request alone.
C15_PresetTotal ==
    PresetDerived =>
        /\ BaseParams \subseteq DOMAIN loc.params
        /\ loc.params.kink_type # "NO" => KinkParams \subseteq DOMAIN loc.params
        /\ loc.params.hair_dynamics = prefs.hair_dynamics[Type]
        /\ loc.params.material = prefs.material[Type]
        /\ loc.params.parent_particle_amount = prefs.parent_particle_amount[Type]
        /\ loc.params = DerivePreset(prefs)

\* C15 witness: a leg-hair call that asked for dynamics has run the preset
\* chain and holds the kink locals
C15_Witness ==
    /\ pc = "apply"
    /\ Type = "leg_hair"
    /\ loc.params.hair_dynamics = TRUE
    /\ loc.params.kink_type = "CURL"
    /\ KinkParams \subseteq DOMAIN loc.params

(***************************************************************************)
(* The collision modifier over a whole call.                               *)
(***************************************************************************)
\* the positions of the collision modifiers in a modifier stack
CollisionModifiers(stack) == {i \in 1..Len(stack) : stack[i].type = "COLLISION"}

\* the current call has removed a modifier / has called modifier_add
Removed == \E i \in 1..Len(log) : log[i][1] = "modifier_remove"
Added == \E i \in 1..Len(log) : log[i][1] = "modifier_add"

\* the object active at entry carried a modifier named "collision", in any
\* letter case
NamedCollisionAtEntry ==
    /\ entry.active # NoObject
    /\ \E i \in 1..Len(entry.modifiers[entry.active]) :
          Upper(entry.modifiers[entry.active][i].name) = "COLLISION"

\* C16: after every FINISHED call the target carries exactly one collision
\* modifier, configured, and the call has both removed a collision modifier
\* and added one.
C16_RemovedAndReadded ==
    Finished =>
        /\ Cardinality(CollisionModifiers(modifiers[Target])) = 1
        /\ collision[Target] # NoCollision
        /\ Removed
        /\ Added

\* C16, amended: after every FINISHED call the target carries exactly one
\* collision modifier with outer thickness 0.015 and modifier_add has been
\* called; a modifier has been removed exactly when the object active at
\* entry carried one named "collision".
C16_OneCollisionModifier ==
    Finished =>
        /\ Cardinality(CollisionModifiers(modifiers[Target])) = 1
        /\ collision[Target] # NoCollision
        /\ collision[Target].thickness_outer = 15000
        /\ Added
        /\ Removed <=> NamedCollisionAtEntry

\* C16 witness: a FINISHED call on the active object, which carried the
\* collision modifier of the Physics tab, has removed it and added one
C16_Witness ==
    /\ Finished
    /\ Target = entry.active
    /\ NamedCollisionAtEntry
    /\ Removed
    /\ Added
    /\ Cardinality(CollisionModifiers(modifiers[Target])) = 1

\* the current call has written field f of the collision settings
CollisionWritten(f) == \E i \in 1..Len(log) : log[i] = Ev("write", "collision", f)

\* C17: when the search of Part 1 found no collision modifier, a FINISHED
\* call has written none of the thirteen collision fields: the new modifier
\* keeps the host's values for them, and only thickness_outer is written.
C17_EmptySnapshotWritesNothing ==
    (Finished /\ loc.collisionModifierName = None /\ Target = entry.active) =>
        /\ \A f \in CollisionFields :
              /\ ~CollisionWritten(f)
              /\ collision[Target][f] = HostNewCollision[f]
        /\ CollisionWritten("thickness_outer")

(***************************************************************************)
(* The settings writes of the new system.                                  *)
(***************************************************************************)
\* the current call has written field f of the new settings block
SettingWritten(f) == \E i \in 1..Len(log) : log[i] = Ev("write", "psettings", f)

\* C18: child_radius of the new settings is written exactly when the derived
\* child distribution is SIMPLE; with INTERPOLATED (fur, eyelashes) it keeps
\* the value the host gave the new settings.
C18_RadiusOnlyWhenSimple ==
    SettingsApplied =>
        /\ SettingWritten("child_radius") <=> loc.params.child_type = "SIMPLE"
        /\ loc.params.child_type # "SIMPLE" =>
              NewSettings.child_radius = HostNewSettings.child_radius

\* C18, amended: child_radius of the new settings is written in every call,
\* whatever the derived child distribution, with the derived radius; for the
\* INTERPOLATED presets (fur, eyelashes) that radius is 0.001.
C18_RadiusAlwaysWritten ==
    SettingsApplied =>
        /\ SettingWritten("child_radius")
        /\ NewSettings.child_radius = loc.params.child_radius
        /\ loc.params.child_type = "INTERPOLATED" =>
              /\ Type \in {"fur", "eyelashes"}
              /\ NewSettings.child_radius = 1000

\* C18 witness: a FINISHED fur call has written the radius 0.001
C18_Witness ==
    /\ Finished
    /\ Type = "fur"
    /\ loc.params.child_type = "INTERPOLATED"
    /\ SettingWritten("child_radius")
    /\ NewSettings.child_radius = 1000

(***************************************************************************)
(* The kink.                                                               *)
(***************************************************************************)
BodyHairTypes == {"arm_hair", "back_hair", "chest_hair", "leg_hair", "stubble"}

\* the derived parameters carry a kink sub-record
DerivesKink ==
    /\ loc.params.kink_type # "NO"
    /\ {"kink_amplitude", "kink_clump", "kink_flatness", "kink_frequency"}
          \subseteq DOMAIN loc.params

\* C19: arm hair, back hair, chest hair, leg hair and stubble each derive a
\* kink sub-record (a kink type other than 'NO', with amplitude, clump,
\* flatness and frequency); hair, fur, eyelashes and eyebrows do not.
C19_BodyHairDerivesKink ==
    PresetDerived => (DerivesKink <=> Type \in BodyHairTypes)

\* C19, amended: arm hair, back hair, chest hair and leg hair each derive a
\* kink sub-record (kink type CURL, with amplitude, clump, flatness,
\* frequency and shape); stubble, hair, fur, eyelashes and eyebrows derive
\* kink type 'NO' and none of the kink fields.
C19_CurlExceptStubble ==
    PresetDerived =>
        IF Type \in BodyHairTypes \ {"stubble"}
        THEN /\ loc.params.kink_type = "CURL"
             /\ KinkParams \subseteq DOMAIN loc.params
        ELSE /\ loc.params.kink_type = "NO"
             /\ KinkParams \cap DOMAIN loc.params = {}

\* C19 witness: a stubble call has run the preset chain without a kink
C19_Witness ==
    /\ pc = "apply"
    /\ Type = "stubble"
    /\ loc.params.kink_type = "NO"
    /\ ~DerivesKink

\* C20: the six kink fields of the new settings (kink, kink_amplitude,
\* kink_amplitude_clump, kink_flat, kink_frequency, kink_shape) are written,
\* with the derived values, if and only if the derived kink type is not 'NO';
\* otherwise all six keep the values the host gave the new settings.
C20_KinkWrittenIffDeclared ==
    SettingsApplied =>
        IF loc.params.kink_type # "NO"
        THEN /\ \A f \in Range(KinkWrites) : SettingWritten(f)
             /\ NewSettings.kink = loc.params.kink_type
             /\ NewSettings.kink_amplitude = loc.params.kink_amplitude
             /\ NewSettings.kink_amplitude_clump = loc.params.kink_clump
             /\ NewSettings.kink_flat = loc.params.kink_flatness
             /\ NewSettings.kink_frequency = loc.params.kink_frequency
             /\ NewSettings.kink_shape = loc.params.kink_shape
        ELSE \A f \in Range(KinkWrites) :
                /\ ~SettingWritten(f)
                /\ NewSettings[f] = HostNewSettings[f]

\* C20 witness: a FINISHED arm-hair call has written its kink
C20_Witness ==
    /\ Finished
    /\ Type = "arm_hair"
    /\ SettingWritten("kink_amplitude")
    /\ NewSettings.kink = "CURL"
    /\ NewSettings.kink_amplitude = 1250
    /\ NewSettings.kink_frequency = 2000000

(***************************************************************************)
(* The vertex group.                                                       *)
(***************************************************************************)
\* C21: the derived use_length_vertex_group is true for fur and eyelashes
\* and false for hair, eyebrows and the five body-hair presets, whatever the
\* buckets.
C21_LengthVertexGroupFlag ==
    PresetDerived =>
        (loc.params.use_length_vertex_group = TRUE <=> Type \in {"fur", "eyelashes"})

\* C21 witness: an eyelashes call with buckets off their defaults has derived
\* the flag as true
C21_Witness ==
    /\ pc = "apply"
    /\ Type = "eyelashes"
    /\ prefs.hair_length["eyelashes"] = "xs"
    /\ prefs.hair_thickness["eyelashes"] = "xl"
    /\ loc.params.use_length_vertex_group = TRUE

\* the current call has written field f of the new particle system
SystemWritten(f) == \E i \in 1..Len(log) : log[i] = Ev("write", "particles", f)

\* C22: once the settings are applied, the new system's density vertex group
\* is written, with the requested name, iff that name is not empty; its
\* length vertex group is written, with the same name, iff the name is not
\* empty and the derived use_length_vertex_group is true; a binding that is
\* not written keeps the host's empty value.
C22_VertexGroupBinding ==
    SettingsApplied =>
        LET vg == prefs.vertex_group_name
            density == vg # ""
            length == vg # "" /\ loc.params.use_length_vertex_group = TRUE
        IN  /\ SystemWritten("vertex_group_density") <=> density
            /\ NewSystem.vertex_group_density = IF density THEN vg ELSE ""
            /\ SystemWritten("vertex_group_length") <=> length
            /\ NewSystem.vertex_group_length = IF length THEN vg ELSE ""

\* C22 witness: a FINISHED hair call with a vertex group has bound the
\* density and left the length unbound
C22_Witness ==
    /\ Finished
    /\ Type = "hair"
    /\ prefs.vertex_group_name = "Scalp"
    /\ NewSystem.vertex_group_density = "Scalp"
    /\ NewSystem.vertex_group_length = ""

(***************************************************************************)
(* The names of the new system and of its settings block.                  *)
(***************************************************************************)
\* the current call has added its particle system and renamed it
SystemAdded ==
    \/ result = "RUNNING" /\ pc \in {"preset", "apply", "dynamics", "cache_name",
                                     "cache_loop", "finish2", "part3"}
    \/ Finished

\* the display name of the request
DisplayName ==
    IF prefs.vertex_group_name = "" THEN Type
    ELSE Type \o " (" \o prefs.vertex_group_name \o ")"

\* the names the host can make of a name that is taken
Suffixed(name) == {name \o "." \o Format03d(n) : n \in 1..(MaxRuns + 1)}

\* C23: the new particle system and its settings block both carry the
\* display name: the system type alone without a vertex group, the system
\* type followed by " (" + vertex group + ")" with one.
C23_DisplayName ==
    SystemAdded =>
        /\ NewSystem.name = DisplayName
        /\ NewSettings.name = DisplayName

\* C23, amended: both are assigned the display name; the system carries it
\* when no other system of the target did at entry, and the settings block
\* carries it when no other settings block did at entry; otherwise the host
\* has stored it with a ".NNN" suffix.
C23_DisplayNameAssigned ==
    SystemAdded =>
        /\ loc.SYSTEM_NAME = DisplayName
        /\ IF DisplayName \notin SystemNames(entry.psys[Target])
           THEN NewSystem.name = DisplayName
           ELSE NewSystem.name \in Suffixed(DisplayName)
        /\ IF DisplayName \notin BlockNames(entry.particles)
           THEN NewSettings.name = DisplayName
           ELSE NewSettings.name \in Suffixed(DisplayName)

\* C23 witness: a second FINISHED hair call, on an object that carried no
\* system named "hair" while a settings block of that name existed
C23_Witness ==
    /\ Finished
    /\ runs = 2
    /\ DisplayName = "hair"
    /\ NewSystem.name = "hair"
    /\ NewSettings.name = "hair.001"

(***************************************************************************)
(* SpecFrames: up to MaxRuns calls for "Body", active and in object mode,  *)
(* in a scene whose frame range is the host's default or a shorter one.    *)
(* "Body" starts with one hand-made system with two named point caches.    *)
(***************************************************************************)
Scenes == {[frame_start |-> 1, frame_end |-> 250], [frame_start |-> 10, frame_end |-> 120]}

InitFrames ==
    /\ filepath = SavedPath
    /\ scene \in Scenes
    /\ \E cb \in BOOLEAN : HostInit("Body", "OBJECT", cb, FALSE)
    /\ OldSystemInit(<<"Body", "Body.001">>)
    /\ ControlInit(MaxRuns)
    /\ entry = HostState

NextFrames ==
    \/ (pc = "idle" /\ \E r \in CacheRequests : ExecuteStart(r))
    \/ Step

SpecFrames == InitFrames /\ [][NextFrames]_vars

\* the point caches of the systems that existed when the call started
CachesAtEntryKept ==
    \A o \in Objects : \A i \in 1..Len(entry.psys[o]) :
        /\ i <= Len(psys[o])
        /\ psys[o][i].point_caches = entry.psys[o][i].point_caches

\* what lines 588-596 leave in the last point cache of the new system
CacheConfigured ==
    /\ NewCache.name = loc.cache_name
    /\ NewCache.frame_start = scene.frame_start
    /\ NewCache.frame_end = scene.frame_end
    /\ NewCache.use_disk_cache = TRUE
    /\ NewCache.compression = "HEAVY"

\* C24: after a FINISHED run the last point cache of the new system carries
\* the resolved cache name, the scene's frame_start and frame_end, disk
\* caching on and compression "HEAVY"; no point cache of a system that
\* existed before the run has changed; and no step changes the scene's
\* frame range.
C24_CacheConfigured ==
    /\ [](Finished => CacheConfigured /\ CachesAtEntryKept)
    /\ [][scene' = scene]_vars

\* C24 witness: a second run has finished in the scene with the short frame
\* range; the new cache carries that range and a suffixed name, and the
\* caches of the hand-made system and of the first run's system are as before
C24_Witness ==
    /\ Finished /\ runs = 2
    /\ scene.frame_start = 10 /\ NewCache.frame_end = 120
    /\ NewCache.name \notin {"Body", "Body.001"}
    /\ Len(entry.psys["Body"]) = 2
    /\ entry.psys["Body"][1].point_caches[1].name = "Body"

\* the bpy.ops.object.mode_set calls of the current call, in order
IsModeSet(e) == e[1] = "mode_set"
ModeEvents == SelectSeq(log, IsModeSet)

\* the mode Part 1 reads at line 108
CapturedAtEntry == entry.mode[entry.active]

\* C25 as stated: within one run the mode is restored exactly once, at the
\* very end: the last host call of a FINISHED run sets the mode read at
\* entry, and every mode_set before it only goes to object mode.
C25_RestoredOnceAtEnd ==
    Finished =>
        /\ log[Len(log)] = Ev("mode_set", active, CapturedAtEntry)
        /\ \A i \in 1..(Len(log) - 1) : IsModeSet(log[i]) => log[i][3] = "OBJECT"

\* C25 as the code has it: each of the three parts reads the mode, goes to
\* object mode and ends by setting the mode it read, so a FINISHED run makes
\* six mode_set calls, three of them restores; the three parts read the same
\* mode, the one of the object active at entry; Parts 1 and 2 (up to the
\* selection) act on that object, the rest of Part 2 and Part 3 on the
\* target; between the parts the mode is back at the mode read; and the
\* last restore is the last host call of the run.
C25_RestoredAfterEachPart ==
    /\ pc = "part2" => mode = entry.mode
    /\ pc = "part3" => mode[active] = CapturedAtEntry
    /\ Finished =>
          /\ ModeEvents = << Ev("mode_set", entry.active, "OBJECT"),
                             Ev("mode_set", entry.active, CapturedAtEntry),
                             Ev("mode_set", entry.active, "OBJECT"),
                             Ev("mode_set", Target, CapturedAtEntry),
                             Ev("mode_set", Target, "OBJECT"),
                             Ev("mode_set", Target, CapturedAtEntry) >>
          /\ log[Len(log)] = Ev("mode_set", Target, CapturedAtEntry)
          /\ loc.mode = CapturedAtEntry

\* C25 witness: a run that started in edit mode has finished
C25_Witness == Finished /\ CapturedAtEntry = "EDIT" /\ Len(ModeEvents) = 6

\* the call has ended with an exception
Failed == pc = "idle" /\ result = "ERROR"

\* C26: no rollback.  A call whose target does not exist never finishes; and
\* when a call fails after Part 1 has removed the collision modifier, the
\* object that carried it is left without it: its stack is one modifier
\* shorter and holds none of the removed name, it has no collision settings,
\* no modifier was added back, the other stacks are as at entry, and what
\* Part 2 did before failing (object mode, selection cleared) stays done.
C26_NoRollback ==
    /\ (pc = "idle" /\ result \in {"FINISHED", "ERROR"} /\ Target \notin Objects)
          => result = "ERROR"
    /\ (Failed /\ Removed) =>
          LET had == entry.active
          IN  /\ Len(modifiers[had]) = Len(entry.modifiers[had]) - 1
              /\ \A i \in 1..Len(modifiers[had]) :
                    modifiers[had][i].name # loc.collisionModifierName
              /\ collision[had] = NoCollision
              /\ ~Added
              /\ \A o \in Objects \ {had} : modifiers[o] = entry.modifiers[o]
              /\ \A o \in Objects : Len(psys[o]) >= Len(entry.psys[o])
              /\ (Target \notin Objects => mode[had] = "OBJECT" /\ selected = {})

\* C26 witness: "Cube", in edit mode with a collision modifier, was active, the
\* target "Ghost" does not exist, and the call has failed after the removal
C26_Witness ==
    /\ Failed /\ Removed
    /\ Target = "Ghost"
    /\ entry.active = "Cube" /\ entry.mode["Cube"] = "EDIT"
    /\ entry.collision["Cube"] # NoCollision
    /\ collision["Cube"] = NoCollision

\* the requested material is not a slot of the target: the host refuses the
\* assignment of line 540
MaterialRejected ==
    loc.params.material # "" /\ loc.params.material \notin MaterialSlots(loc.obj)

\* the settings lines after the try/except have run with the derived values
LaterSettingsApplied ==
    /\ \A i \in 1..Len(ShapeWrites) : SettingWritten(ShapeWrites[i])
    /\ NewSettings.use_hair_bspline = TRUE
    /\ NewSettings.render_step = loc.params.hair_segments
    /\ NewSettings.shape = loc.params.strand_shape
    /\ NewSettings.root_radius = loc.params.hair_thickness
    /\ NewSettings.tip_radius = loc.params.hair_tip
    /\ loc.params.kink_type # "NO" =>
          /\ \A i \in 1..Len(KinkWrites) : SettingWritten(KinkWrites[i])
          /\ NewSettings.kink = loc.params.kink_type

\* C27: the material assignment is best-effort.  With an empty material, or
\* one the host rejects, material_slot is not written and keeps the host's
\* value; the lines after it still write the B-spline flag, render steps,
\* shape, radii and kink; no call fails once the settings writes have begun;
\* and a FINISHED call with a rejected material has made the dynamics
\* writes, configured the cache and re-added and written the collision
\* modifier.  A material the host accepts is written.
C27_MaterialBestEffort ==
    /\ SettingsApplied =>
          /\ (loc.params.material = "" \/ MaterialRejected) =>
                /\ ~SettingWritten("material_slot")
                /\ NewSettings.material_slot = HostNewSettings.material_slot
          /\ (loc.params.material # "" /\ ~MaterialRejected) =>
                /\ SettingWritten("material_slot")
                /\ NewSettings.material_slot = loc.params.material
          /\ LaterSettingsApplied
    /\ Failed => ~SettingWritten("use_advanced_hair")
    /\ (Finished /\ MaterialRejected) =>
          /\ DynamicsEvents # <<>>
          /\ NewCache.name = loc.cache_name
          /\ NewCache.use_disk_cache = TRUE
          /\ Added
          /\ CollisionWritten("thickness_outer")

\* C27 witness: a call for back hair with the material "Fuzz", which "Body"
\* does not have, has finished with the material slot as the host made it
C27_Witness ==
    /\ Finished /\ Type = "back_hair" /\ Target = "Body"
    /\ loc.params.material = "Fuzz"
    /\ NewSettings.material_slot = ""
    /\ NewSettings.kink = loc.params.kink_type

\* the while loop of lines 584-586 is being run
InCacheLoop == result = "RUNNING" /\ pc = "cache_loop"

\* the names the loop has tried and found taken: the base name and the
\* suffixed names below the counter
TriedNames ==
    {loc.original_cache_name}
       \cup {SuffixedName(loc.original_cache_name, k) : k \in 1..(loc.index_append - 1)}

\* C28: the cache-naming loop terminates, and its counter is at most the
\* number of cache names the object had: while the loop runs and after it,
\* the counter never exceeds that number, because every name tried before
\* the current one is one of those names; each turn of the loop raises the
\* counter by one, so the loop makes at most that many turns; and when the
\* loop is left the counter is 0 exactly when the base name was free.
C28_LoopBounded ==
    /\ []((InCacheLoop \/ CacheNamed) =>
             /\ loc.index_append <= Cardinality(ExistingNames)
             /\ loc.index_append > 0 => TriedNames \subseteq ExistingNames)
    /\ [](CacheNamed => (loc.index_append = 0 <=> loc.original_cache_name \notin ExistingNames))
    /\ [][(InCacheLoop /\ pc' = "cache_loop") =>
             loc'.index_append = loc.index_append + 1]_vars

\* C28 witness: every name from "Body" to the one with the counter ManyCaches
\* was taken, and the loop was left with the counter equal to their number
C28_Witness ==
    /\ CacheNamed
    /\ Cardinality(ExistingNames) = ManyCaches + 1
    /\ loc.index_append = Cardinality(ExistingNames)

(***************************************************************************)
(* SpecRerun: up to MaxRuns calls, for hair or fur on "Body" or "Cube",    *)
(* in a file where "Body" already carries a system named "hair" with a     *)
(* settings block named "hair": made by hand, or made by an earlier run    *)
(* and tuned since.  Its Velocity -> Randomize is the host's 0, the 0.01   *)
(* of line 563, or a value the user has set.                               *)
(***************************************************************************)
TunedRandom == {0, 10000, 50000}

EarlierSystem == [UserSystem(<<"Body">>) EXCEPT !.name = "hair"]
EarlierSettings(fr) == [UserSettings EXCEPT !.name = "hair", !.factor_random = fr]

InitRerun ==
    /\ filepath = SavedPath
    /\ scene = [frame_start |-> 1, frame_end |-> 250]
    /\ \E cb \in BOOLEAN : HostInit("Body", "OBJECT", cb, FALSE)
    /\ psys = [o \in Objects |-> IF o = "Body" THEN <<EarlierSystem>> ELSE <<>>]
    /\ \E fr \in TunedRandom : particles = <<EarlierSettings(fr)>>
    /\ ControlInit(MaxRuns)
    /\ entry = HostState

RerunRequests ==
    {[DefaultPreferences EXCEPT !.enum_hair_system = t, !.object_name = o,
                                !.vertex_group_name = vg] :
        t \in {"hair", "fur"}, o \in Objects, vg \in {"", "Scalp"}}

NextRerun ==
    \/ (pc = "idle" /\ \E r \in RerunRequests : ExecuteStart(r))
    \/ Step

SpecRerun == InitRerun /\ [][NextRerun]_vars

\* C29: a run writes particle settings only on the settings block of the
\* system it has just created: after a FINISHED run every settings block and
\* every particle system that existed when the run started is as it was,
\* also one whose settings block holds the display name of the run.
C29_EarlierSettingsUnchanged ==
    Finished =>
        /\ \A i \in 1..Len(entry.particles) : particles[i] = entry.particles[i]
        /\ \A o \in Objects : \A i \in 1..Len(entry.psys[o]) :
              psys[o][i] = entry.psys[o][i]

\* the object Part 1 works on: the one its first mode_set is applied to, whose
\* stack is searched at lines 127-132
SearchedObject == log[1][2]

\* the objects a collision modifier was removed from and added to
SwapObjects ==
    {log[i][2] : i \in {j \in 1..Len(log) : log[j][1] \in {"modifier_remove", "modifier_add"}}}

\* C30: the collision swap stays on one object.  In every FINISHED run the
\* object whose stack is searched, the object a collision modifier is
\* removed from and added to, and the object that has received the new
\* particle system are all the target named in the request, also when
\* another object was active at entry.
C30_SwapOnTarget ==
    Finished =>
        /\ SearchedObject = Target
        /\ SwapObjects = {Target}
        /\ loc.obj = Target
        /\ Len(psys[Target]) = Len(entry.psys[Target]) + 1

====
